---- MODULE Spec2Model ----
(***************************************************************************)
(* Model of the single-symbol spot trading bot (src/bot.py, the ticker     *)
(* variant, and src/bot_candle.py, the closed-candle variant).             *)
(*                                                                         *)
(* Units.  Prices are integers counted in half ticks (tick_size = 2), so   *)
(* that a mid price (bid + ask) / 2 of tick-aligned bid and ask is exact.  *)
(* Quantities are counted in lot steps (step_size = 1).  Quote amounts are *)
(* price * quantity.  Percentages are counted in 1/PctScale (0.001 = 10).  *)
(* Time is counted in seconds.                                             *)
(***************************************************************************)
EXTENDS Integers, Sequences, FiniteSets, TLC

(***************************************************************************)
(* Bounds of the model                                                     *)
(***************************************************************************)
MaxTime == 12
MaxOrders == 2
MaxFaults == 1
MaxPasses == 2
MaxAttempts == 4
SecondsToMidnight == 7
MaxHistory == 5
DocChunks == 2
MaxArrivals == 3

(***************************************************************************)
(* Configuration (environment variables read at import) and the exchange   *)
(* filters of the symbol                                                   *)
(***************************************************************************)
PctScale == 10000

TRADE_VALUE_QUOTE == 6000
BUY_DROP_PCT == 100
TAKE_PROFIT_PCT == 120
STOP_LOSS_PCT == 200
MAX_DAILY_LOSS_QUOTE == 2000
MAX_TRADES_PER_DAY == 10
LOOP_INTERVAL_SECONDS == 3
COOLDOWN_SECONDS == 2
ERROR_LIMIT == 5
ERROR_WINDOW_SECONDS == 600
MAX_SPREAD_PCT == 30
MIN_NOTIONAL_BUFFER == 10500
LIMIT_OFFSET_PCT == 10
ORDER_TIMEOUT_SECONDS == 2
MIN_FILL_QUOTE == 3000
TREND_BLOCK_COOLDOWN_SECONDS == 5
WALK_SLICE_SECONDS == 4
WALK_MAX_TOTAL_SECONDS == 8
WALK_MAX_ATTEMPTS == 3
WALK_OFFSET_START_PCT == 10
WALK_OFFSET_END_PCT == 0
WALK_MAX_SPREAD_CROSS_PCT == 2
RESERVE_MIN_ETH == 1
RESERVE_TRAIL_PCT == 300
RESERVE_BLOCK_COOLDOWN_SECONDS == 5
RESERVE_MAX_SELL_ETH == 3
CANDLE_POLL_SECONDS == 3
MAX_UNDER_SMA_PCT == 300
SMA_WINDOW_CANDLES == 3
TREND_WINDOW_SAMPLES == 5
TREND_MIN_SAMPLES == 4
REVERSAL_SAMPLES == 3
MIN_TREND_SPREAD_PCT == 0
TREND_MODE == "REVERSAL"
REVERSAL_MODE == "BOUNCE3"

step_size == 1
tick_size == 2
min_notional == 4000
min_qty == 1
mul_up == 50000
mul_down == 2000

QuoteDust == 6
ReserveThrottle == 60
MainErrorSleep == 5
RetryBudget == 3
WalkPollInterval == 2
WalkSliceFloor == 5
FixedPollInterval == 1

Max(a, b) == IF a >= b THEN a ELSE b
Min(a, b) == IF a <= b THEN a ELSE b

\* floor and ceiling of n / d for d > 0
FloorDiv(n, d) == n \div d
CeilDiv(n, d) == -((-n) \div d)

(***************************************************************************)
(* Pure helpers                                                            *)
(***************************************************************************)
\* round_down_step: floor a quantity n/d (in steps) to a multiple of step
round_down_step(n, d, step) ==
    IF step = 0 THEN 0 ELSE FloorDiv(n, d * step) * step

\* the engine's own quantization of the quantity it is handed
\* (place_limit_order_walked, place_limit_order_with_timeout)
final_qty(qty_decimal, step) ==
    IF step = 0 THEN qty_decimal ELSE FloorDiv(qty_decimal, step) * step

\* fund_pot_if_needed: est_eth_needed for the raw quantity n/d, raised to the
\* exchange's minQty when it is below it, then aligned to the step again
est_eth_needed(n, d, step, minq) ==
    LET est == round_down_step(n, d, step)
    IN  round_down_step(IF est < minq THEN minq ELSE est, 1, step)

\* fmt_price_side (bot_candle.py): BUY rounds up to the tick, SELL rounds down
fmt_price_side(num, den, tick, side) ==
    IF side = "BUY" THEN CeilDiv(num, den * tick) * tick
    ELSE FloorDiv(num, den * tick) * tick

\* bot.py rounds every limit price down to the tick
FloorPriceToTick(num, den, tick) == FloorDiv(num, den * tick) * tick

\* denominator of the walk progress i / (attempts - 1)
WalkDen(attempts) == IF attempts > 1 THEN attempts - 1 ELSE 1

\* current_offset_pct of attempt i, as a numerator over PctScale * WalkDen
WalkOffsetNumFlat(i, attempts, start, end) == start * WalkDen(attempts)
WalkOffsetNum(i, attempts, start, end) ==
    LET progress == IF attempts > 1 THEN i ELSE 0
    IN  start * WalkDen(attempts) + (end - start) * progress

\* target price of a walk attempt after the spread-crossing cap and the
\* percent-price cap, as a numerator over PctScale * WalkDen.  The caps are
\* numerators over PctScale; 0 stands for a cap that was not passed.
WalkTargetNum(side, mid, offNum, attempts, cap_min, cap_max) ==
    LET den == WalkDen(attempts)
        D == PctScale * den
    IN  IF side = "BUY"
        THEN LET t0 == mid * (D - offNum)
                 max_limit == mid * (PctScale + WALK_MAX_SPREAD_CROSS_PCT) * den
                 t1 == IF t0 > max_limit THEN max_limit ELSE t0
             IN  IF cap_max # 0 /\ t1 > cap_max * den THEN cap_max * den ELSE t1
        ELSE LET t0 == mid * (D + offNum)
                 min_limit == mid * (PctScale - WALK_MAX_SPREAD_CROSS_PCT) * den
                 t1 == IF t0 < min_limit THEN min_limit ELSE t0
             IN  IF cap_min # 0 /\ t1 < cap_min * den THEN cap_min * den ELSE t1

\* price string of walk attempt i
WalkPrice(side, mid, i, attempts, start, end, cap_min, cap_max) ==
    fmt_price_side(
        WalkTargetNum(side, mid, WalkOffsetNum(i, attempts, start, end),
                      attempts, cap_min, cap_max),
        PctScale * WalkDen(attempts), tick_size, side)

\* limit price of the fixed-offset strategy, numerator over PctScale
FixedTargetNum(side, est, offset, cap_min, cap_max) ==
    LET t0 == IF side = "BUY" THEN est * (PctScale - offset)
              ELSE est * (PctScale + offset)
        t1 == IF cap_min # 0 /\ t0 < cap_min THEN cap_min ELSE t0
    IN  IF cap_max # 0 /\ t1 > cap_max THEN cap_max ELSE t1

FixedPrice(prog, side, est, offset, cap_min, cap_max) ==
    IF prog = "bot_candle"
    THEN fmt_price_side(FixedTargetNum(side, est, offset, cap_min, cap_max),
                        PctScale, tick_size, side)
    ELSE FloorPriceToTick(FixedTargetNum(side, est, offset, cap_min, cap_max),
                          PctScale, tick_size)

(***************************************************************************)
(* State                                                                   *)
(***************************************************************************)
VARIABLES
    program,          \* "bot" (src/bot.py) or "bot_candle" (src/bot_candle.py)
    WALK_ENABLED,     \* bot_candle.py: walk-the-limit or fixed offset
    ENABLE_RESERVE_AUTOSALE,  \* bot_candle.py: the reserve watcher may sell
    walk,             \* WALK_MAX_ATTEMPTS, WALK_OFFSET_START_PCT and
                      \* WALK_OFFSET_END_PCT as read from the environment
    now,              \* time.time()
    \* BotState
    state, entry_price, last_sell_price, pot_quote, pot_eth,
    daily_loss_quote, trade_count, day_key, last_trade_time,
    error_timestamps, trend_block_until,
    reserve_high_watermark_quote, reserve_last_value_quote,
    reserve_last_action_ts, reserve_last_seen_eth,
    \* main()
    pc,               \* position of the control loop
    exit_code,        \* -1 while running, else the status of sys.exit
    last_reserve_ts,
    pass,             \* locals of the pass: market data read in it
    call,             \* arguments of the running execute_limit call
    ex,               \* locals of the execution engine
    outcome,          \* value returned to the caller of the engine
    \* exchange
    orders,           \* orders accepted by the exchange, by orderId
    faults,           \* API calls that have failed so far
    passes,           \* passes of the main loop started so far
    \* state store
    file,             \* STATE_FILE: whether it exists, how much of the
                      \* document is written, and the document
    saves             \* BotState.save calls of the running pass

botvars == <<state, entry_price, last_sell_price, pot_quote, pot_eth,
             daily_loss_quote, trade_count, last_trade_time, error_timestamps,
             trend_block_until>>
resvars == <<reserve_high_watermark_quote, reserve_last_value_quote,
             reserve_last_action_ts, reserve_last_seen_eth>>
\* what stays as it is within a pass of the main loop, once it is past the
\* checks at the top
runvars == <<program, WALK_ENABLED, ENABLE_RESERVE_AUTOSALE, walk, passes,
            day_key>>
storevars == <<file, saves>>
vars == <<runvars, storevars, now, botvars, resvars, pc, exit_code,
          last_reserve_ts, pass, call, ex, outcome, orders, faults>>

StartTime == 100
Horizon == StartTime + MaxTime

\* datetime.now(tz).strftime("%Y-%m-%d") at time t: the run starts on day "D"
\* and the operator's timezone passes midnight SecondsToMidnight later
Midnight == StartTime + SecondsToMidnight
now_date(t) == IF t < Midnight THEN "D" ELSE "D+1"

NoneRes == [status |-> "None", executedQty |-> 0, cummulativeQuoteQty |-> 0]
NoFill == [status |-> "CANCELED_TIMEOUT_NOFILL", executedQty |-> 0,
           cummulativeQuoteQty |-> 0]
NoCall == [path |-> "NONE", side |-> "NONE", qty |-> 0, mid_decimal |-> 0,
           cap_min |-> 0, cap_max |-> 0, pass_mid |-> 0]
NoPass == [current_price |-> 0, exec_mid |-> 0, bid |-> 0, ask |-> 0,
           now_ts |-> 0, price_history |-> <<>>, current_sma |-> 0,
           total_free_base |-> 0]
\* placed counts the orders the call has put on the exchange; unconfirmed
\* tells that an attempt of the call ended without the final status of its
\* order (the cancel, or the get_order after it, failed)
ExIdle == [pc |-> "idle", i |-> 0, start_time |-> 0, price |-> 0,
           poll_seconds |-> 0, order_id |-> 0, elapsed |-> 0, tries |-> 0,
           res |-> NoneRes, placed |-> 0, unconfirmed |-> FALSE,
           offset |-> 0]

\* n more API calls fail (timeouts, 5xx and 4xx answers)
Fail(n) == faults + n <= MaxFaults /\ faults' = faults + n
Bit(b) == IF b THEN 1 ELSE 0

IsOpen(o) == o.status \in {"NEW", "PARTIALLY_FILLED"}
OpenOrders == {k \in 1..Len(orders) : IsOpen(orders[k])}

\* the order document get_order returns
OrderDoc(o) == [status |-> o.status, executedQty |-> o.executedQty,
                cummulativeQuoteQty |-> o.executedQty * o.price]

(***************************************************************************)
(* Exchange: an open order fills, or is resolved by the exchange.  orders  *)
(* holds the orders on the book, then the order of the running attempt;    *)
(* an orderId is the place in it.  The model follows the order the engine  *)
(* is waiting on; an order the engine has given up on stays as it was left.*)
(***************************************************************************)
Watched == {k \in OpenOrders : pc = "exec" /\ ex.pc = "poll" /\ k = ex.order_id}

\* the exchange's book once an attempt is over: an order that is resolved
\* leaves it, an order that is still open stays
Live(os) == SelectSeq(os, IsOpen)

ExchangeFill ==
    /\ \E k \in Watched :
         \E q \in {1, orders[k].origQty - orders[k].executedQty} :
            LET e == orders[k].executedQty + q
            IN  orders' = [orders EXCEPT ![k].executedQty = e,
                              ![k].status = IF e = orders[k].origQty
                                            THEN "FILLED"
                                            ELSE "PARTIALLY_FILLED"]
    /\ UNCHANGED <<runvars, storevars, now, botvars, resvars, pc, exit_code,
                   last_reserve_ts, pass, call, ex, outcome, faults>>

ExchangeResolve ==
    /\ \E k \in Watched :
         \E s \in {"CANCELED", "EXPIRED", "REJECTED"} :
            /\ s = "REJECTED" => orders[k].executedQty = 0
            /\ orders' = [orders EXCEPT ![k].status = s]
    /\ UNCHANGED <<runvars, storevars, now, botvars, resvars, pc, exit_code,
                   last_reserve_ts, pass, call, ex, outcome, faults>>

(***************************************************************************)
(* Order execution engine                                                  *)
(***************************************************************************)
\* execute_limit: classification of what the strategy returned
execute_limit(order) ==
    IF order.status = "CANCELED_TIMEOUT_NOFILL" THEN order
    ELSE IF order = NoneRes THEN NoneRes
    ELSE IF order.status = "REJECTED" THEN NoneRes
    ELSE IF order.executedQty > 0 THEN order
    ELSE NoneRes

\* bot_candle.py reaches the strategies through execute_limit; bot.py calls
\* place_limit_order_with_timeout directly
Returned(order) == IF program = "bot_candle" THEN execute_limit(order) ELSE order

UseWalk == program = "bot_candle" /\ WALK_ENABLED

\* LIMIT_OFFSET_PCT_USED (bot_candle.py) and LIMIT_OFFSET_PCT (bot.py)
LIMIT_OFFSET_PCT_USED ==
    IF program = "bot_candle" /\ WALK_ENABLED THEN 0 ELSE LIMIT_OFFSET_PCT

\* delays[i] of api_call
ApiDelay(i) == IF i = 0 THEN 1 ELSE IF i = 1 THEN 2 ELSE 4

\* the engine hands `order` back to its caller
Return(order) ==
    /\ outcome' = Returned(order)
    /\ ex' = ExIdle
    /\ pc' = "apply"

\* a caller enters the engine (execute_limit / place_limit_order_with_timeout)
StartExec(path, side, qty, mid_decimal, cap_min, cap_max, pass_mid) ==
    LET quantized == final_qty(qty, step_size)
        c == [path |-> path, side |-> side, qty |-> quantized,
              mid_decimal |-> mid_decimal, cap_min |-> cap_min,
              cap_max |-> cap_max, pass_mid |-> pass_mid]
    IN  /\ call' = c
        /\ IF UseWalk
           THEN /\ ex' = [ExIdle EXCEPT !.pc = "walk_loop", !.start_time = now]
                /\ pc' = "exec"
                /\ outcome' = NoneRes
           ELSE IF quantized <= 0
           THEN /\ outcome' = Returned(NoneRes)
                /\ ex' = ExIdle
                /\ pc' = "apply"
           ELSE /\ ex' = [ExIdle EXCEPT !.pc = "place",
                            !.price = FixedPrice(program, side, mid_decimal,
                                                 LIMIT_OFFSET_PCT_USED,
                                                 cap_min, cap_max)]
                /\ pc' = "exec"
                /\ outcome' = NoneRes

\* place_limit_order_walked: head of the attempt loop
WalkLoop ==
    /\ pc = "exec" /\ ex.pc = "walk_loop"
    /\ LET used == now - ex.start_time
           remaining_total == WALK_MAX_TOTAL_SECONDS - used
       IN  IF \/ ex.i >= walk.attempts
              \/ used > WALK_MAX_TOTAL_SECONDS
              \/ remaining_total <= 0
           THEN Return(NoFill)
           ELSE /\ ex' = [ex EXCEPT
                      !.pc = "place",
                      !.offset = WalkOffsetNum(ex.i, walk.attempts, walk.start,
                                               walk.end),
                      !.price = WalkPrice(call.side, call.mid_decimal, ex.i,
                                          walk.attempts, walk.start, walk.end,
                                          call.cap_min, call.cap_max),
                      !.poll_seconds = Max(WalkSliceFloor,
                                           Min(WALK_SLICE_SECONDS, remaining_total)),
                      !.tries = 0, !.order_id = 0, !.elapsed = 0]
                /\ UNCHANGED <<pc, outcome>>
    /\ UNCHANGED <<runvars, storevars, now, botvars, resvars, exit_code, last_reserve_ts,
                   pass, call, orders, faults>>

\* the result of one walk attempt reaches place_limit_order_walked
AttemptEnds(e, res) == ex' = [e EXCEPT !.pc = "walk_res", !.res = res]
AttemptDone(res) == AttemptEnds(ex, res)
Unconfirmed(res) == AttemptEnds([ex EXCEPT !.unconfirmed = TRUE], res)

\* what a strategy does when the placement raised
Raised(e) == IF UseWalk THEN AttemptEnds(e, NoneRes) /\ UNCHANGED <<pc, outcome>>
             ELSE Return(NoneRes)

\* api_call(client.new_order): one invocation of new_order.  "ok": accepted
\* and answered; "lost": accepted, the answer is lost (a transient error is
\* raised); "fail": not accepted, transient error; "client_error": refused
\* with a 4xx ClientError.
NewOrder ==
    /\ pc = "exec" /\ ex.pc = "place"
    /\ Len(orders) < MaxOrders
    /\ \E r \in {"ok", "lost", "fail", "client_error"} :
         /\ Fail(Bit(r # "ok"))
         /\ orders' = IF r \in {"ok", "lost"}
                      THEN Append(orders, [side |-> call.side,
                                           origQty |-> call.qty,
                                           price |-> ex.price,
                                           status |-> "NEW",
                                           executedQty |-> 0])
                      ELSE orders
         /\ LET e == [ex EXCEPT !.placed = @ + Bit(r \in {"ok", "lost"})]
            IN  IF r = "ok"
                THEN /\ ex' = [e EXCEPT !.pc = "poll",
                                        !.order_id = Len(orders) + 1,
                                        !.elapsed = 0,
                                        !.start_time = IF UseWalk THEN @ ELSE now]
                     /\ UNCHANGED <<now, pc, outcome>>
                ELSE IF r = "client_error" \/ ex.tries = RetryBudget - 1
                THEN Raised(e) /\ UNCHANGED now
                ELSE /\ now + ApiDelay(ex.tries) <= Horizon
                     /\ now' = now + ApiDelay(ex.tries)
                     /\ ex' = [e EXCEPT !.tries = @ + 1]
                     /\ UNCHANGED <<pc, outcome>>
    /\ UNCHANGED <<runvars, storevars, botvars, resvars, exit_code, last_reserve_ts,
                   pass, call>>

\* place_limit_order_once_with_poll: one turn of the poll loop
WalkPoll ==
    /\ pc = "exec" /\ ex.pc = "poll" /\ UseWalk
    /\ ex.elapsed < ex.poll_seconds
    /\ now + WalkPollInterval <= Horizon
    /\ now' = now + WalkPollInterval
    /\ \E ok \in BOOLEAN :
         LET latest == OrderDoc(orders[ex.order_id])
             e == [ex EXCEPT !.elapsed = @ + WalkPollInterval]
             done(res) == ex' = [e EXCEPT !.pc = "walk_res", !.res = res]
         IN  /\ Fail(Bit(~ok))
             /\ IF ~ok THEN ex' = e
                ELSE IF latest.status = "FILLED" THEN done(latest)
                ELSE IF latest.status \in {"CANCELED", "EXPIRED"}
                THEN IF latest.executedQty > 0 THEN done(latest)
                     ELSE done(NoFill)
                ELSE IF latest.status = "REJECTED" THEN done(latest)
                ELSE ex' = e
    /\ UNCHANGED <<runvars, storevars, botvars, resvars, pc, exit_code, last_reserve_ts,
                   pass, call, outcome, orders>>

\* the exchange cancels order k if it is still open
Canceled(k) == IF IsOpen(orders[k]) THEN [orders EXCEPT ![k].status = "CANCELED"]
               ELSE orders

\* place_limit_order_once_with_poll: the slice timed out, cancel and verify.
\* c is the way api_call(cancel_order) ends, g the way the get_order after
\* it ends, landed whether a cancel whose answer was lost reached the
\* exchange, b whether the best-effort second cancel succeeds.
WalkCancel ==
    /\ pc = "exec" /\ ex.pc = "poll" /\ UseWalk
    /\ ex.elapsed >= ex.poll_seconds
    /\ \E c \in {"ok", "unknown_order", "client_error", "exception"},
          g \in BOOLEAN, landed \in BOOLEAN, b \in BOOLEAN :
         LET k == ex.order_id
             after(os) == OrderDoc(os[k])
             verified(os) == IF after(os).executedQty > 0 THEN after(os)
                             ELSE NoFill
         IN  CASE c = "ok" ->
                    /\ IsOpen(orders[k])
                    /\ ~landed /\ ~b
                    /\ Fail(Bit(~g))
                    /\ orders' = Canceled(k)
                    /\ IF g THEN AttemptDone(verified(orders'))
                       ELSE Unconfirmed(NoneRes)
               [] c = "unknown_order" ->
                    \* -2011: the order is not open (any more)
                    /\ landed = IsOpen(orders[k])
                    /\ ~b
                    /\ Fail(Bit(landed) + Bit(~g))
                    /\ orders' = Canceled(k)
                    /\ IF g THEN AttemptDone(verified(orders'))
                       ELSE Unconfirmed(NoFill)
               [] c = "client_error" ->
                    /\ ~landed /\ g
                    /\ Fail(1)
                    /\ orders' = IF b THEN Canceled(k) ELSE orders
                    /\ Unconfirmed(NoneRes)
               [] c = "exception" ->
                    /\ ~b /\ g
                    /\ Fail(1)
                    /\ orders' = IF landed THEN Canceled(k) ELSE orders
                    /\ Unconfirmed(NoneRes)
    /\ UNCHANGED <<runvars, storevars, now, botvars, resvars, pc, exit_code,
                   last_reserve_ts, pass, call, outcome>>

\* place_limit_order_walked: what the loop does with an attempt's result:
\* "next" attempt, "fail" the walk, or return the "fill"
WalkVerdictFilledOnly(res) ==
    IF res = NoneRes THEN "next"
    ELSE IF res.status = "CANCELED_TIMEOUT_NOFILL" THEN "next"
    ELSE IF res.status = "FILLED" THEN "fill"
    ELSE "next"
WalkVerdict(res) ==
    IF res = NoneRes THEN "next"
    ELSE IF res.status = "CANCELED_TIMEOUT_NOFILL" THEN "next"
    ELSE IF res.status = "REJECTED" THEN "fail"
    ELSE IF res.executedQty > 0 THEN "fill"
    ELSE "next"

WalkResult ==
    /\ pc = "exec" /\ ex.pc = "walk_res"
    /\ LET v == WalkVerdict(ex.res)
       IN  IF v = "fail" THEN Return(NoneRes)
           ELSE IF v = "fill" THEN Return(ex.res)
           ELSE /\ ex' = [ex EXCEPT !.pc = "walk_loop", !.i = @ + 1,
                                     !.res = NoneRes]
                /\ UNCHANGED <<pc, outcome>>
    /\ orders' = Live(orders)
    /\ UNCHANGED <<runvars, storevars, now, botvars, resvars, exit_code, last_reserve_ts,
                   pass, call, faults>>

\* place_limit_order_with_timeout: one turn of the poll loop
FixedPoll ==
    /\ pc = "exec" /\ ex.pc = "poll" /\ ~UseWalk
    /\ now - ex.start_time < ORDER_TIMEOUT_SECONDS
    /\ now + FixedPollInterval <= Horizon
    /\ now' = now + FixedPollInterval
    /\ \E ok \in BOOLEAN :
         LET o_stat == OrderDoc(orders[ex.order_id])
         IN  /\ Fail(Bit(~ok))
             /\ IF ~ok THEN Return(NoneRes)
                ELSE IF o_stat.status = "FILLED" THEN Return(o_stat)
                ELSE IF o_stat.status \in {"CANCELED", "REJECTED", "EXPIRED"}
                THEN IF o_stat.executedQty > 0 THEN Return(o_stat)
                     ELSE Return(NoneRes)
                ELSE UNCHANGED <<ex, pc, outcome>>
    /\ UNCHANGED <<runvars, storevars, botvars, resvars, exit_code, last_reserve_ts,
                   pass, call, orders>>

\* what place_limit_order_with_timeout returns for a timed-out order that
\* was cancelled with nothing executed
FixedCleanTimeout == IF program = "bot_candle" THEN NoFill ELSE NoneRes

\* place_limit_order_with_timeout: timeout reached, cancel and check
FixedCancel ==
    /\ pc = "exec" /\ ex.pc = "poll" /\ ~UseWalk
    /\ now - ex.start_time >= ORDER_TIMEOUT_SECONDS
    /\ \E c \in {"ok", "error"}, g \in BOOLEAN, landed \in BOOLEAN :
         LET k == ex.order_id
         IN  IF c = "ok"
             THEN /\ IsOpen(orders[k]) /\ ~landed
                  /\ Fail(Bit(~g))
                  /\ orders' = Canceled(k)
                  /\ IF g
                     THEN IF orders'[k].executedQty > 0
                          THEN Return(OrderDoc(orders'[k]))
                          ELSE Return(FixedCleanTimeout)
                     ELSE Return(NoneRes)
             ELSE /\ g
                  /\ Fail(Bit(IsOpen(orders[k])))
                  /\ orders' = IF landed THEN Canceled(k) ELSE orders
                  /\ Return(NoneRes)
    /\ UNCHANGED <<runvars, storevars, now, botvars, resvars, exit_code, last_reserve_ts,
                   pass, call>>

(***************************************************************************)
(* Market data and account balances read from the exchange                 *)
(***************************************************************************)
Bids == {1940, 1980, 2004}
\* askPrice for a bidPrice: one tick above, or a wide spread
Asks(bid) == {bid + tick_size, bid + 4 * tick_size}
\* bidPrice seen right after a candle closed at c_close
LiveBids(c_close) == {c_close}
Closes == {1940, 1980, 2004}
FreeBases == {0, 3}
\* price_history once the close c is appended: a cold window, a rising one,
\* one with a dip among its last samples, and one that ends flat
Histories(c) == {<<c>>, <<c - 6, c - 4, c - 2, c>>, <<c - 6, c - 2, c - 4, c>>,
                 <<c - 6, c - 4, c, c>>}
\* the sell logic does not read the history
PassHistories(c) == IF state = "HOLDING_QUOTE" THEN Histories(c) ELSE {<<c>>}
\* calculate_sma(bot.candle_closes) of a warm window whose last close is c:
\* closes near c, or closes that were well above it
Smas(c) == {c - 3, c + 80}
PassSmas(c, ph) ==
    IF state = "HOLDING_QUOTE" /\ Len(ph) >= TREND_MIN_SAMPLES THEN Smas(c)
    ELSE {c}

MidOf(bid, ask) == (bid + ask) \div 2
\* exec_spread > MAX_SPREAD_PCT
SpreadTooWide(bid, ask) == (ask - bid) * PctScale > MAX_SPREAD_PCT * bid

\* target_notional_decimal of main()
target_for(min_not) ==
    Max(TRADE_VALUE_QUOTE, (min_not * MIN_NOTIONAL_BUFFER) \div PctScale)
target_notional == target_for(min_notional)

\* safe_execution_checks
safe_execution_checks(quantity, mid, min_notional_decimal, target) ==
    LET notional_val == quantity * mid
    IN  /\ ~(notional_val < min_notional_decimal)
        /\ ~(notional_val * 100 < target * 95)

\* check_errors: the timestamps still inside the window
PrunedNever(ts, t) == ts
Pruned(ts, t) == SelectSeq(ts, LAMBDA x : t - x < ERROR_WINDOW_SECONDS)

\* normalize_pots
ClampEth(v, step) == IF v < 0 THEN 0 ELSE v
NormEthStep(v, step) == IF v # 0 /\ v < step /\ -v < step THEN 0
                        ELSE IF v < 0 THEN 0 ELSE v
NormEth(v) == NormEthStep(v, step_size)
NormQuote(v) == IF v # 0 /\ v < QuoteDust /\ -v < QuoteDust THEN 0
                ELSE IF v < 0 THEN 0 ELSE v

\* the pots once a BUY outcome is booked: main() and normalize_pots
buy_pots(pq, pe, cumm_quote, exec_qty, step) ==
    [pot_quote |-> NormQuote(Max(pq - cumm_quote, 0)),
     pot_eth |-> NormEthStep(pe + exec_qty, step)]
\* the pots once a SELL outcome is booked: main() and normalize_pots
sell_pots(pq, pe, cumm_quote, exec_qty, step) ==
    [pot_quote |-> NormQuote(pq + cumm_quote),
     pot_eth |-> NormEthStep(pe - exec_qty, step)]

(***************************************************************************)
(* State store                                                             *)
(***************************************************************************)
\* BotState.__dict__, as json.dump writes it
Snapshot ==
    [state |-> state, entry_price |-> entry_price,
     last_sell_price |-> last_sell_price, pot_quote |-> pot_quote,
     pot_eth |-> pot_eth, daily_loss_quote |-> daily_loss_quote,
     trade_count |-> trade_count, day_key |-> day_key,
     last_trade_time |-> last_trade_time,
     error_timestamps |-> error_timestamps,
     trend_block_until |-> trend_block_until,
     reserve_high_watermark_quote |-> reserve_high_watermark_quote,
     reserve_last_value_quote |-> reserve_last_value_quote,
     reserve_last_action_ts |-> reserve_last_action_ts,
     reserve_last_seen_eth |-> reserve_last_seen_eth]

\* BotState.__init__
NewBotState ==
    [state |-> "HOLDING_QUOTE", entry_price |-> 0, last_sell_price |-> 0,
     pot_quote |-> 0, pot_eth |-> 0, daily_loss_quote |-> 0, trade_count |-> 0,
     day_key |-> "", last_trade_time |-> 0, error_timestamps |-> <<>>,
     trend_block_until |-> 0, reserve_high_watermark_quote |-> 0,
     reserve_last_value_quote |-> 0, reserve_last_action_ts |-> 0,
     reserve_last_seen_eth |-> 0]

\* no STATE_FILE yet
NoFile == [exists |-> FALSE, written |-> 0, data |-> NewBotState]
\* STATE_FILE after a save that ran to its end
Written(data) == [exists |-> TRUE, written |-> DocChunks, data |-> data]

\* data.get(key, default)
Get(data, key, default) == IF key \in DOMAIN data THEN data[key] ELSE default

\* a JSON value that takes len(): a list (a string or an object too)
Sized(items) == [sized |-> TRUE, items |-> items]
\* a JSON value that does not: null, a number, true or false
Unsized == [sized |-> FALSE, items |-> <<>>]

\* BotState.load, the assignments up to error_timestamps
load_head(d, self) ==
    [self EXCEPT
        !.state = IF Get(d, "state", "HOLDING_QUOTE") = "HOLDING_USDT"
                  THEN "HOLDING_QUOTE" ELSE Get(d, "state", "HOLDING_QUOTE"),
        !.entry_price = Get(d, "entry_price", 0),
        !.last_sell_price = Get(d, "last_sell_price", 0),
        !.pot_quote = IF "pot_usdt" \in DOMAIN d THEN d.pot_usdt
                      ELSE Get(d, "pot_quote", 0),
        !.pot_eth = Get(d, "pot_eth", 0),
        !.daily_loss_quote = IF "daily_loss_usdt" \in DOMAIN d
                             THEN d.daily_loss_usdt
                             ELSE Get(d, "daily_loss_quote", 0),
        !.trade_count = Get(d, "trade_count", 0),
        !.day_key = Get(d, "day_key", ""),
        !.last_trade_time = Get(d, "last_trade_time", 0),
        !.error_timestamps = Get(d, "error_timestamps", <<>>)]
\* BotState.load, the assignments after price_history
load_tail(d, self) ==
    [self EXCEPT
        !.trend_block_until = Get(d, "trend_block_until", 0),
        !.reserve_high_watermark_quote =
            Get(d, "reserve_high_watermark_quote", 0),
        !.reserve_last_value_quote = Get(d, "reserve_last_value_quote", 0),
        !.reserve_last_action_ts = Get(d, "reserve_last_action_ts", 0),
        !.reserve_last_seen_eth = Get(d, "reserve_last_seen_eth", 0)]

\* BotState.load into the BotState self: nothing when there is no file or
\* json.load raises on a document that is not whole; else field by field
\* inside one try block, so that len() of a price_history that has no length
\* ends the load where it stands
load_all(f, self) == load_tail(f.data, load_head(f.data, self))
load(f, self) ==
    IF ~f.exists \/ f.written < DocChunks THEN self
    ELSE IF ~Get(f.data, "price_history", Sized(<<>>)).sized
    THEN load_head(f.data, self)
    ELSE load_tail(f.data, load_head(f.data, self))

\* STATE_FILE when load() left the BotState as it is now
LoadedFile == IF Snapshot = NewBotState THEN NoFile ELSE Written(Snapshot)

\* the store after a step that called BotState.save n times, the last time
\* after its last change to the BotState
Saved(n) == /\ saves' = saves + n
            /\ file' = IF n > 0 THEN Written(Snapshot') ELSE file

(***************************************************************************)
(* Control loop                                                            *)
(***************************************************************************)
Sleep(d) == /\ now + d <= Horizon
            /\ now' = now + d
            /\ pc' = "top"
            /\ UNCHANGED exit_code
Exit(code) == /\ pc' = "stopped"
              /\ exit_code' = code
              /\ UNCHANGED now
Goto(p) == /\ pc' = p
           /\ UNCHANGED <<now, exit_code>>

PassSleep == IF program = "bot_candle" THEN CANDLE_POLL_SECONDS
             ELSE LOOP_INTERVAL_SECONDS

\* error_timestamps.append(time.time()); check_errors(bot)
CountError(ts) == Pruned(Append(ts, now), now)

\* check_errors saves when pruning changed the length of the list, unless
\* it stops the process: the store after an error was appended to a
\* BotState that the step had saved k times before
ErrorStore(k) ==
    LET appended == Append(error_timestamps, now)
        counted == Pruned(appended, now)
        saved == Len(counted) # Len(appended) /\ Len(counted) < ERROR_LIMIT
    IN  /\ saves' = saves + k + Bit(saved)
        /\ file' = IF saved
                   THEN Written([Snapshot EXCEPT !.error_timestamps = counted])
                   ELSE IF k > 0 THEN Written(Snapshot) ELSE file

\* a failed operation is counted, the breaker is checked, the loop goes on
CountErrorSaved(d, k) ==
    /\ error_timestamps' = CountError(error_timestamps)
    /\ IF Len(error_timestamps') >= ERROR_LIMIT THEN Exit(1) ELSE Sleep(d)
    /\ ErrorStore(k)
CountErrorThen(d) == CountErrorSaved(d, 0)

\* BotState.check_daily_reset: a daily counter after the check
NewDay == now_date(now) # day_key
KeepCounter(counter) == counter
check_daily_reset(counter) == IF NewDay THEN 0 ELSE counter

\* the hard stops at the top of the loop
CapReachedLossOnly(loss, trades) == loss >= MAX_DAILY_LOSS_QUOTE
CapReached(loss, trades) ==
    loss >= MAX_DAILY_LOSS_QUOTE \/ trades >= MAX_TRADES_PER_DAY

\* top of the while loop: check_daily_reset, check_errors and the daily caps;
\* bot.py goes on to its cooldown check
LoopTop ==
    /\ pc = "top"
    /\ passes < MaxPasses
    /\ passes' = passes + 1
    /\ day_key' = now_date(now)
    /\ daily_loss_quote' = check_daily_reset(daily_loss_quote)
    /\ trade_count' = check_daily_reset(trade_count)
    /\ error_timestamps' = Pruned(error_timestamps, now)
    /\ IF Len(error_timestamps') >= ERROR_LIMIT THEN Exit(1)
       ELSE IF CapReached(daily_loss_quote', trade_count') THEN Exit(0)
       ELSE IF program = "bot_candle" THEN Goto("reserve")
       ELSE /\ now + 1 <= Horizon
            /\ IF now + 1 - last_trade_time < COOLDOWN_SECONDS
               THEN Sleep(1 + LOOP_INTERVAL_SECONDS)
               ELSE /\ now' = now + 1
                    /\ pc' = "funding"
                    /\ UNCHANGED exit_code
    /\ UNCHANGED <<program, WALK_ENABLED, ENABLE_RESERVE_AUTOSALE, walk,
                   state, entry_price,
                   last_sell_price, pot_quote, pot_eth,
                   last_trade_time, trend_block_until, resvars, last_reserve_ts,
                   pass, call, ex, outcome, orders, faults>>
    \* check_daily_reset saves on a new day; check_errors saves when it
    \* pruned something and goes on
    /\ LET pruned == Len(error_timestamps') # Len(error_timestamps)
           stops == Len(error_timestamps') >= ERROR_LIMIT
           reset == [Snapshot' EXCEPT !.error_timestamps = error_timestamps]
       IN  /\ saves' = Bit(NewDay) + Bit(pruned /\ ~stops)
           /\ file' = IF pruned /\ ~stops THEN Written(Snapshot')
                      ELSE IF NewDay THEN Written(reset) ELSE file

\* the whole free balance taken for the reserve
free_base_as_reserve(account_free_base, pot_base) == account_free_base
\* compute_reserve_base: free - pot, 0 when it is below RESERVE_MIN_ETH
compute_reserve_base(account_free_base, pot_base) ==
    LET reserve == account_free_base - pot_base
    IN  IF reserve < RESERVE_MIN_ETH THEN 0 ELSE reserve

\* reserve_watcher: the reserve changed by more than a lot step or by more
\* than 5% since it was last seen
size_changed(prev_base, reserve_base) ==
    LET delta_base == IF reserve_base >= prev_base
                      THEN reserve_base - prev_base
                      ELSE prev_base - reserve_base
    IN  /\ prev_base > 0
        /\ \/ delta_base > step_size
           \/ delta_base * 100 > 5 * prev_base
\* a watermark that is set once and never raised
watermark_set_once(high, value, resized) == IF high = 0 THEN value ELSE high
\* reserve_watcher: the watermark after the size-change reset and the
\* high watermark update
watermark_after(high, value, resized) ==
    LET reset == IF resized THEN value ELSE high
    IN  IF reset = 0 \/ value > reset THEN value ELSE reset

\* reserve_watcher: a trail signal outside the cooldown is answered
\* by a SELL whatever ENABLE_RESERVE_AUTOSALE says
reserve_sells_on_signal(cooling, signal, autosale, notional) ==
    ~cooling /\ signal /\ notional >= min_notional
\* reserve_watcher: the steps 4 to 6 up to the call of execute_limit
reserve_sells(cooling, signal, autosale, notional) ==
    ~cooling /\ signal /\ autosale /\ notional >= min_notional

\* throttled reserve watcher of the candle loop: reserve_watcher up to the
\* point where it returns or hands a SELL to the engine; balances are the
\* free base balances the account call may return
ReserveWatcherOn(balances) ==
    /\ pc = "reserve"
    /\ UNCHANGED <<runvars, botvars>>
    /\ UNCHANGED <<reserve_last_action_ts, orders>>
    /\ IF ~(now - last_reserve_ts > ReserveThrottle)
       THEN /\ Goto("candles")
            /\ UNCHANGED storevars
            /\ UNCHANGED <<last_reserve_ts, reserve_high_watermark_quote,
                           reserve_last_value_quote, reserve_last_seen_eth,
                           pass, call, ex, outcome, faults>>
       ELSE
       /\ last_reserve_ts' = now
       /\ \E bid \in Bids, ticker_ok \in BOOLEAN, total_free_base \in balances :
          \E ask \in {bid + tick_size} :
            LET current_mid == IF ticker_ok THEN MidOf(bid, ask) ELSE 0
                reserve_base == compute_reserve_base(total_free_base, pot_eth)
                value == reserve_base * current_mid
                prev_base == reserve_last_seen_eth
                resized == size_changed(prev_base, reserve_base)
                hw1 == IF resized THEN value ELSE reserve_high_watermark_quote
                hw2 == watermark_after(reserve_high_watermark_quote, value,
                                       resized)
                cooling == now - reserve_last_action_ts
                               < RESERVE_BLOCK_COOLDOWN_SECONDS
                signal == /\ value * PctScale <= hw2 * (PctScale - RESERVE_TRAIL_PCT)
                          /\ hw2 > 0
                zero_changed == \/ reserve_high_watermark_quote # 0
                                \/ reserve_last_seen_eth # 0
                                \/ reserve_last_value_quote # 0
                changed == \/ resized
                           \/ reserve_last_seen_eth # reserve_base
                           \/ hw1 = 0 \/ value > hw1
                qty_to_sell == round_down_step(
                                   Min(reserve_base, RESERVE_MAX_SELL_ETH), 1,
                                   step_size)
            IN  /\ Fail(Bit(~ticker_ok))
                /\ IF current_mid = 0
                   THEN /\ Goto("candles")
                        /\ UNCHANGED storevars
                        /\ UNCHANGED <<reserve_high_watermark_quote,
                                       reserve_last_value_quote,
                                       reserve_last_seen_eth, pass, call, ex,
                                       outcome>>
                   ELSE IF reserve_base = 0
                   THEN /\ reserve_high_watermark_quote' = 0
                        /\ reserve_last_seen_eth' = 0
                        /\ reserve_last_value_quote' = 0
                        /\ Goto("candles")
                        /\ UNCHANGED <<pass, call, ex, outcome>>
                        /\ Saved(Bit(zero_changed))
                   ELSE /\ reserve_last_value_quote' = value
                        /\ reserve_last_seen_eth' = reserve_base
                        /\ reserve_high_watermark_quote' = hw2
                        /\ IF ~reserve_sells(cooling, signal,
                                             ENABLE_RESERVE_AUTOSALE,
                                             qty_to_sell * current_mid)
                           THEN /\ Goto("candles")
                                /\ UNCHANGED <<pass, call, ex, outcome>>
                           ELSE /\ pass' = [NoPass EXCEPT
                                              !.now_ts = now,
                                              !.exec_mid = current_mid,
                                              !.total_free_base =
                                                  total_free_base]
                                /\ StartExec("RESERVE", "SELL", qty_to_sell,
                                             current_mid, current_mid * mul_down,
                                             current_mid * mul_up, current_mid)
                                /\ UNCHANGED <<now, exit_code>>
                        /\ Saved(Bit(changed))

ReserveWatcher == ReserveWatcherOn(FreeBases)

\* reserve_watcher after execute_limit returned
ApplyReserve ==
    /\ pc = "apply" /\ call.path = "RESERVE"
    /\ reserve_last_action_ts' = pass.now_ts
    /\ reserve_high_watermark_quote' =
         IF outcome # NoneRes /\ outcome.status # "CANCELED_TIMEOUT_NOFILL"
         THEN 0 ELSE reserve_high_watermark_quote
    /\ Goto("candles")
    /\ call' = NoCall /\ outcome' = NoneRes /\ pass' = NoPass
    /\ UNCHANGED <<runvars, botvars, reserve_last_value_quote,
                   reserve_last_seen_eth, last_reserve_ts, ex, faults>>
    /\ orders' = Live(orders)
    /\ Saved(1)

\* candle loop: poll the candles, cooldown gate, staleness check, live
\* bid/ask and spread block
CandlePass ==
    /\ pc = "candles"
    /\ \E has_new \in BOOLEAN, stale \in BOOLEAN, ticker_ok \in BOOLEAN,
          c_close \in Closes :
       \E bid \in LiveBids(c_close) :
       \E ask \in Asks(bid), ph \in PassHistories(c_close) :
       \E sma \in PassSmas(c_close, ph) :
         LET idle == /\ Sleep(CANDLE_POLL_SECONDS)
                     /\ UNCHANGED <<pass, error_timestamps, faults>>
             \* the batch of new candles is saved before anything else
             batch_saved == /\ saves' = saves + 1
                            /\ file' = Written(Snapshot)
         IN  IF ~has_new THEN idle /\ UNCHANGED storevars
             ELSE IF now - last_trade_time < COOLDOWN_SECONDS
             THEN idle /\ batch_saved
             ELSE IF stale THEN idle /\ batch_saved
             ELSE IF ~ticker_ok
             THEN /\ Fail(1) /\ UNCHANGED pass
                  /\ CountErrorSaved(MainErrorSleep, 1)
             ELSE IF SpreadTooWide(bid, ask) THEN idle /\ batch_saved
             ELSE /\ pass' = [NoPass EXCEPT !.current_price = c_close,
                                            !.exec_mid = MidOf(bid, ask),
                                            !.bid = bid, !.ask = ask,
                                            !.price_history = ph,
                                            !.current_sma = sma]
                  /\ Goto("funding")
                  /\ UNCHANGED <<error_timestamps, faults>>
                  /\ batch_saved
    /\ UNCHANGED <<runvars, state, entry_price, last_sell_price, pot_quote,
                   pot_eth, daily_loss_quote, trade_count, last_trade_time,
                   trend_block_until, resvars, last_reserve_ts, call, ex,
                   outcome, orders>>

\* should_apply_trend_block(bot_state, now_time)
trend_block_never(until, now_time) == FALSE
should_apply_trend_block(until, now_time) == now_time < until

\* set_trend_block(bot_state, now_time): the new trend_block_until
set_trend_block_now(now_time) == now_time
set_trend_block(now_time) == now_time + TREND_BLOCK_COOLDOWN_SECONDS

\* calculate_sma, rounded down
calculate_sma(prices) ==
    LET RECURSIVE Sum(_)
        Sum(q) == IF q = <<>> THEN 0 ELSE Head(q) + Sum(Tail(q))
    IN  IF prices = <<>> THEN 0 ELSE Sum(prices) \div Len(prices)

\* the last n entries of a list: prices[-n:]
LastN(prices, n) ==
    IF n = 0 \/ Len(prices) <= n THEN prices
    ELSE SubSeq(prices, Len(prices) - n + 1, Len(prices))

\* all(subset[i] < subset[i+1] for i in range(len(subset)-1))
is_nondecreasing(subset) ==
    \A i \in 1..(Len(subset) - 1) : subset[i] <= subset[i + 1]
is_rising(subset) == \A i \in 1..(Len(subset) - 1) : subset[i] < subset[i + 1]

\* is_reversal_confirmed: (confirmed, reason)
\* is_reversal_confirmed, CROSSUP: prev_price <= prev_sma and
\* current_price > current_sma * (1 + MIN_TREND_SPREAD_PCT)
crossup(current_price, current_sma, prev_price, prev_sma) ==
    /\ prev_price <= prev_sma
    /\ current_price * PctScale > current_sma * (PctScale + MIN_TREND_SPREAD_PCT)

\* main() of bot_candle.py, after the batch was appended:
\* prev_price = price_history[-2], prev_sma = calculate_sma(candle_closes[:-1])
candle_prev_price(price_history, current_price) ==
    IF Len(price_history) >= 2 THEN price_history[Len(price_history) - 1]
    ELSE current_price
candle_prev_sma(candle_closes, current_sma) ==
    IF Len(candle_closes) > 1
    THEN calculate_sma(SubSeq(candle_closes, 1, Len(candle_closes) - 1))
    ELSE current_sma

GateAnswer(ok, why) == [confirmed |-> ok, reason |-> why]
is_reversal_confirmed(price_history, current_price, current_sma, prev_price, prev_sma) ==
    LET above == current_price * PctScale
                    > current_sma * (PctScale + MIN_TREND_SPREAD_PCT)
    IN  IF price_history = <<>> \/ Len(price_history) < TREND_MIN_SAMPLES
        THEN GateAnswer(FALSE, "WARMUP")
        ELSE IF TREND_MODE = "STRICT"
        THEN IF above THEN GateAnswer(TRUE, "STRICT_OK")
             ELSE GateAnswer(FALSE, "STRICT_BLOCKED")
        ELSE IF TREND_MODE = "REVERSAL" /\ REVERSAL_MODE = "CROSSUP"
        THEN IF crossup(current_price, current_sma, prev_price, prev_sma)
             THEN GateAnswer(TRUE, "REVERSAL_CROSSUP_OK")
             ELSE GateAnswer(FALSE, "REVERSAL_CROSSUP_BLOCKED")
        ELSE IF TREND_MODE = "REVERSAL" /\ REVERSAL_MODE = "BOUNCE3"
        THEN IF Len(price_history) < REVERSAL_SAMPLES
             THEN GateAnswer(FALSE, "WARMUP_BOUNCE")
             ELSE IF is_rising(LastN(price_history, REVERSAL_SAMPLES))
             THEN GateAnswer(TRUE, "REVERSAL_BOUNCE3_OK")
             ELSE GateAnswer(FALSE, "REVERSAL_BOUNCE3_BLOCKED")
        ELSE GateAnswer(FALSE, "UNKNOWN_MODE")

\* the gate as main() calls it at the buy check of the pass
TrendGate ==
    LET ph == pass.price_history
        prev == IF Len(ph) >= 2 THEN ph[Len(ph) - 1] ELSE pass.current_price
    IN  is_reversal_confirmed(ph, pass.current_price, pass.current_sma, prev,
                              calculate_sma(SubSeq(ph, 1, Len(ph) - 1)))

\* bot.py: market data of the pass
TickMarket ==
    /\ pc = "market"
    /\ \E ticker_ok \in BOOLEAN, bid \in Bids :
       \E ask \in Asks(bid) : \E ph \in PassHistories(MidOf(bid, ask)) :
         IF ~ticker_ok
         THEN /\ Fail(1) /\ Sleep(MainErrorSleep)
              /\ UNCHANGED <<pass, storevars>>
         ELSE IF SpreadTooWide(bid, ask)
         THEN /\ Sleep(LOOP_INTERVAL_SECONDS) /\ UNCHANGED <<pass, faults>>
              /\ saves' = saves + 1 /\ file' = Written(Snapshot)
         ELSE /\ pass' = [NoPass EXCEPT !.current_price = MidOf(bid, ask),
                                        !.exec_mid = MidOf(bid, ask),
                                        !.bid = bid, !.ask = ask,
                                        !.price_history = ph,
                                        !.current_sma = calculate_sma(ph)]
              /\ Goto("logic")
              /\ UNCHANGED faults
              /\ saves' = saves + 1 /\ file' = Written(Snapshot)
    /\ UNCHANGED <<runvars, botvars, resvars, last_reserve_ts, call, ex,
                   outcome, orders>>

\* where main() goes on after the funding block
AfterFunding == IF program = "bot_candle" THEN "logic" ELSE "market"

\* main() after fund_pot_if_needed returned: the pot must now be tradeable
FundingVerdict(pot) ==
    IF pot < min_notional THEN Exit(1) ELSE Goto(AfterFunding)

\* fund_pot_if_needed: the quantity of the funding SELL and what the balance
\* check in front of it decides. bot_candle.py checks the balance, then
\* raises the quantity to minQty; bot.py boosts a quantity below the minimum
\* notional, then checks the balance
funding_sell(prog, needed_quote, mid, free_base, step, minq, min_not) ==
    IF prog = "bot_candle"
    THEN LET est0 == round_down_step(needed_quote * 102, mid * 100, step)
         IN  [skips |-> FALSE, stops |-> est0 > free_base,
              qty |-> est_eth_needed(needed_quote * 102, mid * 100, step, minq)]
    ELSE LET qty0 == round_down_step(needed_quote * 101, mid * 100, step)
             qty_to_sell == IF qty0 * mid < min_not
                            THEN round_down_step(target_for(min_not), mid, step)
                            ELSE qty0
         IN  [skips |-> qty0 <= 0, stops |-> qty_to_sell > free_base,
              qty |-> qty_to_sell]

\* fund_pot_if_needed: the pot is already sufficient, 95% of the target
pot_sufficient(pot, target) == pot * 100 >= target * 95

\* pot funding block of main() and fund_pot_if_needed up to the point where
\* it returns, stops, or hands the funding SELL to the engine
Funding ==
    /\ pc = "funding"
    /\ UNCHANGED <<runvars, state, entry_price, last_sell_price, pot_quote,
                   pot_eth, daily_loss_quote, trade_count, last_trade_time,
                   trend_block_until, resvars, last_reserve_ts, orders>>
    /\ IF ~(state = "HOLDING_QUOTE" /\ pot_quote < min_notional)
       THEN /\ Goto(AfterFunding)
            /\ UNCHANGED <<error_timestamps, pass, call, ex, outcome, faults,
                           storevars>>
       ELSE IF pot_sufficient(pot_quote, target_notional)
       THEN /\ FundingVerdict(pot_quote)
            /\ UNCHANGED <<error_timestamps, pass, call, ex, outcome, faults,
                           storevars>>
       ELSE
       \E io \in {"ok", "ticker", "account", "info"},
          bid \in (IF program = "bot_candle" THEN {pass.bid} ELSE Bids),
          free_base \in FreeBases :
       \E ask \in {bid + tick_size}, bid_f \in {bid} :
         LET mid == IF io # "ticker" THEN MidOf(bid, ask) ELSE 0
             account_ok == io # "account"
             info_ok == io # "info"
             needed_quote == target_notional - pot_quote
             fund == funding_sell(program, needed_quote, mid, free_base,
                                  step_size, min_qty, min_notional)
             ref_price_f == Max(bid_f, mid)
             returns == /\ FundingVerdict(pot_quote)
                        /\ UNCHANGED <<error_timestamps, pass, call, ex, outcome,
                                       storevars>>
             stops == /\ Exit(1)
                      /\ UNCHANGED <<error_timestamps, pass, call, ex, outcome,
                                     storevars>>
             raises == /\ CountErrorThen(MainErrorSleep)
                       /\ UNCHANGED <<pass, call, ex, outcome>>
         IN  IF mid = 0 THEN Fail(1) /\ returns
             ELSE IF program = "bot_candle"
             THEN IF ~account_ok \/ ~info_ok THEN Fail(1) /\ raises
                  ELSE IF fund.stops THEN stops /\ UNCHANGED faults
                  ELSE /\ StartExec("FUND", "SELL", fund.qty, ref_price_f,
                                    mid * mul_down, mid * mul_up, mid)
                       /\ UNCHANGED <<now, exit_code, error_timestamps, pass,
                                      faults, storevars>>
             ELSE IF ~account_ok THEN Fail(1) /\ returns
                  ELSE IF fund.skips THEN returns /\ UNCHANGED faults
                  ELSE IF fund.stops THEN stops /\ UNCHANGED faults
                  ELSE IF ~info_ok THEN Fail(1) /\ raises
                  ELSE /\ StartExec("FUND", "SELL", fund.qty, mid, 0, 0, mid)
                       /\ UNCHANGED <<now, exit_code, error_timestamps, pass,
                                      faults, storevars>>

\* get_avg_exec_price alone, for an order document that carries no fills
AvgOfNoFills(order, fallback) == 0
\* average fill price of an order document
AvgPrice(order, fallback) ==
    IF order.executedQty > 0
    THEN order.cummulativeQuoteQty \div order.executedQty
    ELSE fallback

IsOrder(order) == order # NoneRes /\ order.status # "CANCELED_TIMEOUT_NOFILL"

\* fund_pot_if_needed after the engine returned, then main()'s verdict
ApplyFund ==
    /\ pc = "apply" /\ call.path = "FUND"
    /\ call' = NoCall /\ outcome' = NoneRes
    /\ UNCHANGED <<runvars, entry_price, pot_eth, daily_loss_quote, trade_count,
                   trend_block_until, resvars, last_reserve_ts, pass, ex, faults>>
    /\ orders' = Live(orders)
    /\ IF outcome.status = "CANCELED_TIMEOUT_NOFILL"
       THEN /\ FundingVerdict(pot_quote)
            /\ UNCHANGED <<state, last_sell_price, pot_quote, last_trade_time,
                           error_timestamps, storevars>>
       ELSE IF outcome # NoneRes
       THEN LET avg_price == AvgPrice(outcome, 0)
            IN  /\ pot_quote' = pot_quote + outcome.cummulativeQuoteQty
                /\ last_sell_price' = avg_price
                /\ state' = "HOLDING_QUOTE"
                /\ UNCHANGED error_timestamps
                /\ IF avg_price <= 0
                   THEN Exit(1) /\ UNCHANGED <<last_trade_time, storevars>>
                   ELSE /\ last_trade_time' = now
                        /\ FundingVerdict(pot_quote')
                        /\ saves' = saves + 1
                        /\ file' = Written(
                               [Snapshot EXCEPT
                                   !.pot_quote = pot_quote',
                                   !.last_sell_price = avg_price,
                                   !.state = "HOLDING_QUOTE",
                                   !.last_trade_time = now])
       ELSE /\ error_timestamps' = CountError(error_timestamps)
            /\ IF Len(error_timestamps') >= ERROR_LIMIT THEN Exit(1)
               ELSE FundingVerdict(pot_quote)
            /\ UNCHANGED <<state, last_sell_price, pot_quote, last_trade_time>>
            /\ ErrorStore(0)

DIP_ANCHOR_MODE == "LAST_SELL_ONLY"

\* dip trigger: current_price <= anchor * (1 - BUY_DROP_PCT)
\* knife guard: current_price < current_sma * (1 - MAX_UNDER_SMA_PCT)
FallingKnife(price, sma) == price * PctScale < sma * (PctScale - MAX_UNDER_SMA_PCT)

DipTriggered(price, anchor) == price * PctScale <= anchor * (PctScale - BUY_DROP_PCT)

\* sell signal: take profit or stop loss
SellSignal(price, entry) ==
    \/ price * PctScale >= entry * (PctScale + TAKE_PROFIT_PCT)
    \/ price * PctScale <= entry * (PctScale - STOP_LOSS_PCT)

\* main(): what a quantity that rounds to 0 does. Both programs stop on a
\* SELL; bot.py stops on a BUY, bot_candle.py sleeps and goes on
zero_qty_stops(prog, side) == ~(prog = "bot_candle" /\ side = "BUY")

\* the quantity rounded up to the step instead of down
qty_rounded_up(side, pot, price, step) ==
    IF side = "BUY" THEN CeilDiv(pot * 99, price * 100 * step) * step
    ELSE CeilDiv(pot + 1, step) * step
\* main(): qty_to_buy and qty_to_sell
qty_to_trade(side, pot, price, step) ==
    IF side = "BUY" THEN round_down_step(pot * 99, price * 100, step)
    ELSE round_down_step(pot, 1, step)

\* BUY / SELL logic of main() up to the point where the pass ends, the
\* process stops, or an order is handed to the engine.
Logic ==
    /\ pc = "logic"
    /\ UNCHANGED <<runvars, state, entry_price, pot_quote, pot_eth,
                   daily_loss_quote, trade_count, last_trade_time,
                   error_timestamps, resvars, last_reserve_ts, orders, faults>>
    /\ LET current_price == pass.current_price
           exec_mid == pass.exec_mid
           trend_ready == Len(pass.price_history) >= TREND_MIN_SAMPLES
           confirmed == TrendGate.confirmed
           is_falling_knife == program = "bot_candle" /\ trend_ready
                                  /\ FallingKnife(current_price, pass.current_sma)
           idle == /\ pass' = NoPass
                   /\ UNCHANGED <<last_sell_price, trend_block_until, call, ex,
                                  outcome, storevars>>
           cap_min == exec_mid * mul_down
           cap_max == exec_mid * mul_up
       IN
       IF state = "HOLDING_QUOTE"
          THEN
            LET anchor_price == IF program = "bot_candle" /\ last_sell_price <= 0
                                THEN current_price ELSE last_sell_price
                qty_to_buy == qty_to_trade("BUY", pot_quote, current_price,
                                           step_size)
                ref_price == IF program = "bot_candle"
                             THEN Min(pass.bid, current_price)
                             ELSE current_price
            IN  IF program = "bot" /\ ~(last_sell_price > 0)
                THEN /\ last_sell_price' = current_price
                     /\ Sleep(PassSleep)
                     /\ pass' = NoPass
                     /\ UNCHANGED <<trend_block_until, call, ex, outcome>>
                     /\ saves' = saves + 1
                     /\ file' = Written([Snapshot EXCEPT
                                            !.last_sell_price = current_price])
                ELSE IF ~DipTriggered(current_price, anchor_price)
                THEN Sleep(PassSleep) /\ idle
                ELSE IF is_falling_knife
                THEN Sleep(PassSleep) /\ idle
                ELSE IF should_apply_trend_block(trend_block_until, now)
                THEN Sleep(PassSleep) /\ idle
                ELSE IF ~trend_ready
                THEN Sleep(PassSleep) /\ idle
                ELSE IF ~confirmed
                THEN /\ trend_block_until' = set_trend_block(now)
                     /\ Sleep(PassSleep)
                     /\ pass' = NoPass
                     /\ UNCHANGED <<last_sell_price, call, ex, outcome>>
                     /\ saves' = saves + 1
                     /\ file' = Written([Snapshot EXCEPT
                                            !.trend_block_until =
                                                set_trend_block(now)])
                ELSE IF qty_to_buy <= 0
                THEN (IF zero_qty_stops(program, "BUY") THEN Exit(1)
                      ELSE Sleep(PassSleep)) /\ idle
                ELSE IF qty_to_buy * ref_price < min_notional
                THEN Exit(1) /\ idle
                ELSE IF ~safe_execution_checks(qty_to_buy, exec_mid,
                                               min_notional, target_notional)
                THEN Sleep(PassSleep) /\ idle
                ELSE /\ StartExec("BUY", "BUY", qty_to_buy, ref_price,
                                  cap_min, cap_max, exec_mid)
                     /\ UNCHANGED <<now, exit_code, pass, last_sell_price,
                                    trend_block_until, storevars>>
          ELSE
            LET qty_to_sell == qty_to_trade("SELL", pot_eth, current_price,
                                            step_size)
                ref_price == IF program = "bot_candle"
                             THEN Max(pass.ask, current_price)
                             ELSE current_price
            IN  IF ~SellSignal(current_price, entry_price)
                THEN Sleep(PassSleep) /\ idle
                ELSE IF qty_to_sell <= 0
                THEN (IF zero_qty_stops(program, "SELL") THEN Exit(1)
                      ELSE Sleep(PassSleep)) /\ idle
                ELSE IF qty_to_sell * exec_mid < min_notional
                THEN Exit(1) /\ idle
                ELSE IF ~safe_execution_checks(qty_to_sell, exec_mid,
                                               min_notional, target_notional)
                THEN Sleep(PassSleep) /\ idle
                ELSE /\ StartExec("SELL", "SELL", qty_to_sell, ref_price,
                                  cap_min, cap_max, exec_mid)
                     /\ UNCHANGED <<now, exit_code, pass, last_sell_price,
                                    trend_block_until, storevars>>

\* a reported BUY flips the position to holding base
BuyFlipsAlways(cumm_quote, exec_qty) == exec_qty >= step_size
BuyFlips(cumm_quote, exec_qty) ==
    cumm_quote >= MIN_FILL_QUOTE /\ exec_qty >= step_size

\* main() after the BUY order came back
ApplyBuy ==
    /\ pc = "apply" /\ call.path = "BUY"
    /\ call' = NoCall /\ outcome' = NoneRes /\ pass' = NoPass
    /\ UNCHANGED <<runvars, last_sell_price, daily_loss_quote, trade_count,
                   trend_block_until, resvars, last_reserve_ts, ex, faults>>
    /\ orders' = Live(orders)
    /\ IF outcome.status = "CANCELED_TIMEOUT_NOFILL"
       THEN /\ Sleep(PassSleep)
            /\ UNCHANGED <<state, entry_price, pot_quote, pot_eth,
                           last_trade_time, error_timestamps, storevars>>
       ELSE IF outcome # NoneRes
       THEN LET cumm_quote == outcome.cummulativeQuoteQty
                exec_qty == outcome.executedQty
                avg_price == AvgPrice(outcome, pass.current_price)
                flip == BuyFlips(cumm_quote, exec_qty)
                booked == buy_pots(pot_quote, pot_eth, cumm_quote, exec_qty,
                                   step_size)
            IN  /\ pot_quote' = booked.pot_quote
                /\ pot_eth' = booked.pot_eth
                /\ entry_price' = IF flip THEN avg_price ELSE entry_price
                /\ state' = IF flip THEN "HOLDING_ETH" ELSE state
                /\ last_trade_time' = now
                /\ UNCHANGED error_timestamps
                /\ Sleep(PassSleep)
                /\ Saved(1)
       ELSE /\ UNCHANGED <<state, entry_price, pot_quote, pot_eth,
                           last_trade_time>>
            /\ IF program = "bot_candle"
               THEN Sleep(PassSleep) /\ UNCHANGED <<error_timestamps, storevars>>
               ELSE CountErrorThen(PassSleep)

\* is_dust: nothing is left in the pot, or less than min_notional at mid
is_dust(rem, mid) == rem = 0 \/ rem * mid < min_notional

\* a reported SELL flips the position back to holding quote
SellFlipsWhenEmpty(cumm_quote, rem, mid) ==
    cumm_quote >= MIN_FILL_QUOTE /\ rem = 0
SellFlips(cumm_quote, rem, mid) ==
    cumm_quote >= MIN_FILL_QUOTE /\ is_dust(rem, mid)

\* main() after the SELL order came back
ApplySell ==
    /\ pc = "apply" /\ call.path = "SELL"
    /\ call' = NoCall /\ outcome' = NoneRes /\ pass' = NoPass
    /\ UNCHANGED <<runvars, entry_price, trend_block_until, resvars,
                   last_reserve_ts, ex, faults>>
    /\ orders' = Live(orders)
    /\ IF outcome.status = "CANCELED_TIMEOUT_NOFILL"
       THEN /\ Sleep(PassSleep)
            /\ UNCHANGED <<state, last_sell_price, pot_quote, pot_eth,
                           daily_loss_quote, trade_count, last_trade_time,
                           error_timestamps, storevars>>
       ELSE IF outcome = NoneRes
       THEN /\ CountErrorThen(PassSleep)
            /\ UNCHANGED <<state, last_sell_price, pot_quote, pot_eth,
                           daily_loss_quote, trade_count, last_trade_time>>
       ELSE LET cumm_quote == outcome.cummulativeQuoteQty
                exec_qty == outcome.executedQty
                avg_price == AvgPrice(outcome, pass.current_price)
                pnl == (avg_price - entry_price) * exec_qty
                booked == sell_pots(pot_quote, pot_eth, cumm_quote, exec_qty,
                                    step_size)
                rem == booked.pot_eth
                flip == SellFlips(cumm_quote, rem, pass.exec_mid)
            IN  /\ daily_loss_quote' = IF pnl < 0 THEN daily_loss_quote - pnl
                                       ELSE daily_loss_quote
                /\ pot_eth' = rem
                /\ pot_quote' = booked.pot_quote
                /\ last_sell_price' = avg_price
                /\ state' = IF flip THEN "HOLDING_QUOTE" ELSE state
                /\ trade_count' = IF flip THEN trade_count + 1 ELSE trade_count
                /\ last_trade_time' = now
                /\ UNCHANGED error_timestamps
                /\ Sleep(PassSleep)
                /\ Saved(1)

(***************************************************************************)
(* Initial states: the configuration of the run and the BotState that      *)
(* load() leaves: the defaults, or a snapshot saved by an earlier run.     *)
(***************************************************************************)
Configs == {<<"bot", FALSE>>, <<"bot_candle", FALSE>>, <<"bot_candle", TRUE>>}

DefaultState ==
    [state |-> "HOLDING_QUOTE", entry_price |-> 0, last_sell_price |-> 0,
     pot_quote |-> 0, pot_eth |-> 0, last_trade_time |-> 0,
     hw |-> 0, seen |-> 0, daily_loss_quote |-> 0, trade_count |-> 0,
     day_key |-> ""]
\* saved after a funding sell of 3 lots at 2004 and a first reserve sighting
FundedState ==
    [DefaultState EXCEPT !.last_sell_price = 2004, !.pot_quote = 6012,
                         !.last_trade_time = StartTime - 10,
                         !.hw = 6012, !.seen = 3, !.day_key = "D"]
\* saved after the following buy of 3 lots at 1980, with a lot left over
\* from an earlier partial buy
BoughtState ==
    [FundedState EXCEPT !.state = "HOLDING_ETH", !.entry_price = 1980,
                        !.pot_quote = 72, !.pot_eth = 4]
\* saved when the trade cap of the day was reached: today's, and yesterday's
TradeCappedState == [FundedState EXCEPT !.trade_count = MAX_TRADES_PER_DAY]
StaleCappedState == [TradeCappedState EXCEPT !.day_key = "D-1"]
\* saved when the loss cap of the day was reached
LossCappedState ==
    [BoughtState EXCEPT !.daily_loss_quote = MAX_DAILY_LOSS_QUOTE]
Snapshots == {DefaultState, FundedState, BoughtState, TradeCappedState,
              StaleCappedState, LossCappedState}

WalkDefaults == [attempts |-> WALK_MAX_ATTEMPTS,
                 start |-> WALK_OFFSET_START_PCT, end |-> WALK_OFFSET_END_PCT]

Init ==
    /\ \E c \in Configs : program = c[1] /\ WALK_ENABLED = c[2]
    /\ ENABLE_RESERVE_AUTOSALE \in IF program = "bot_candle" THEN BOOLEAN
                                   ELSE {FALSE}
    /\ walk = WalkDefaults
    /\ \E s \in Snapshots :
         /\ state = s.state
         /\ entry_price = s.entry_price
         /\ last_sell_price = s.last_sell_price
         /\ pot_quote = s.pot_quote
         /\ pot_eth = s.pot_eth
         /\ last_trade_time = s.last_trade_time
         /\ reserve_high_watermark_quote = (IF program = "bot_candle" THEN s.hw ELSE 0)
         /\ reserve_last_value_quote = (IF program = "bot_candle" THEN s.hw ELSE 0)
         /\ reserve_last_seen_eth = (IF program = "bot_candle" THEN s.seen ELSE 0)
         /\ daily_loss_quote = s.daily_loss_quote
         /\ trade_count = s.trade_count
         /\ day_key = s.day_key
    /\ now = StartTime
    /\ error_timestamps = <<>>
    /\ trend_block_until = 0
    /\ reserve_last_action_ts = 0
    /\ pc = "top"
    /\ exit_code = -1
    /\ last_reserve_ts = 0
    /\ pass = NoPass
    /\ call = NoCall
    /\ ex = ExIdle
    /\ outcome = NoneRes
    /\ orders = <<>>
    /\ faults = 0
    /\ passes = 0
    /\ saves = 0
    /\ file = LoadedFile

Next ==
    \/ LoopTop
    \/ ReserveWatcher
    \/ ApplyReserve
    \/ CandlePass
    \/ TickMarket
    \/ Funding
    \/ ApplyFund
    \/ Logic
    \/ ApplyBuy
    \/ ApplySell
    \/ WalkLoop
    \/ NewOrder
    \/ WalkPoll
    \/ WalkCancel
    \/ WalkResult
    \/ FixedPoll
    \/ FixedCancel
    \/ ExchangeFill
    \/ ExchangeResolve

Spec == Init /\ [][Next]_vars

(***************************************************************************)
(* The price of a walk attempt on its own: the walk is at the head of its  *)
(* loop, at any attempt, under any walk configuration, and computes the    *)
(* offset and the price of the attempt.                                    *)
(***************************************************************************)
WalkConfigs == [attempts : 1..MaxAttempts, start : {0, 5, 10}, end : {0, 5, 10}]
WalkCalls ==
    {[path |-> sd, side |-> sd, qty |-> 3, mid_decimal |-> m,
      cap_min |-> m * mul_down, cap_max |-> m * mul_up, pass_mid |-> m] :
        sd \in {"BUY", "SELL"}, m \in {1941, 1980, 2005}}

InitPrice ==
    /\ program = "bot_candle" /\ WALK_ENABLED = TRUE
    /\ ENABLE_RESERVE_AUTOSALE = TRUE
    /\ walk \in WalkConfigs
    /\ day_key = "D"
    /\ call \in WalkCalls
    /\ \E i \in 0..(MaxAttempts - 1) :
         /\ i < walk.attempts
         /\ ex = [ExIdle EXCEPT !.pc = "walk_loop", !.i = i,
                                !.start_time = StartTime]
    /\ now = StartTime
    /\ state = (IF call.side = "BUY" THEN "HOLDING_QUOTE" ELSE "HOLDING_ETH")
    /\ entry_price = BoughtState.entry_price
    /\ last_sell_price = BoughtState.last_sell_price
    /\ pot_quote = (IF call.side = "BUY" THEN FundedState.pot_quote
                    ELSE BoughtState.pot_quote)
    /\ pot_eth = (IF call.side = "BUY" THEN 0 ELSE BoughtState.pot_eth)
    /\ last_trade_time = BoughtState.last_trade_time
    /\ reserve_high_watermark_quote = 0
    /\ reserve_last_value_quote = 0
    /\ reserve_last_seen_eth = 0
    /\ daily_loss_quote = 0
    /\ trade_count = 0
    /\ error_timestamps = <<>>
    /\ trend_block_until = 0
    /\ reserve_last_action_ts = 0
    /\ pc = "exec"
    /\ exit_code = -1
    /\ last_reserve_ts = StartTime
    /\ pass = [NoPass EXCEPT !.current_price = call.mid_decimal,
                             !.exec_mid = call.mid_decimal]
    /\ outcome = NoneRes
    /\ orders = <<>>
    /\ faults = 0
    /\ passes = 1
    /\ saves = 0
    /\ file = LoadedFile

NextPrice == WalkLoop

SpecPrice == InitPrice /\ [][NextPrice]_vars

(***************************************************************************)
(* The quantity of an order on its own: a caller (buy, sell, reserve sell  *)
(* or funding sell) holds a raw quantity qty_raw_num / qty_raw_den and the *)
(* symbol's LOT_SIZE filter, computes the quantity it hands to the engine, *)
(* and the engine quantizes it once more before it formats it.             *)
(***************************************************************************)
QtyPaths == {"BUY", "SELL", "RESERVE", "FUND"}
RawNums == {0, 1, 3, 7, 10, 25}
RawDens == {1, 2, 4}
StepSizes == {1, 2, 5}
MinQtys == {1, 2, 5, 10}

\* the quantity an order of the path is submitted with
OrderQty(path, n, d, step, minq) ==
    final_qty(IF path = "FUND" THEN est_eth_needed(n, d, step, minq)
              ELSE round_down_step(n, d, step),
              step)

InitQty ==
    /\ program = "bot_candle" /\ WALK_ENABLED = TRUE
    /\ ENABLE_RESERVE_AUTOSALE = TRUE
    /\ walk = WalkDefaults
    /\ day_key = "D"
    /\ \E path \in QtyPaths :
         call = [NoCall EXCEPT !.path = path, !.side = "SELL"]
    /\ pass \in [qty_raw_num : RawNums, qty_raw_den : RawDens,
                 step_size_decimal : StepSizes, min_qty_decimal : MinQtys]
    /\ pass.min_qty_decimal % pass.step_size_decimal = 0
    \* funding is entered with a pot below the target: it needs something
    /\ (call.path = "FUND" => pass.qty_raw_num > 0)
    /\ now = StartTime
    /\ state = "HOLDING_QUOTE"
    /\ entry_price = 0
    /\ last_sell_price = 0
    /\ pot_quote = 0
    /\ pot_eth = 0
    /\ last_trade_time = 0
    /\ reserve_high_watermark_quote = 0
    /\ reserve_last_value_quote = 0
    /\ reserve_last_seen_eth = 0
    /\ daily_loss_quote = 0
    /\ trade_count = 0
    /\ error_timestamps = <<>>
    /\ trend_block_until = 0
    /\ reserve_last_action_ts = 0
    /\ pc = "quantize"
    /\ exit_code = -1
    /\ last_reserve_ts = StartTime
    /\ ex = ExIdle
    /\ outcome = NoneRes
    /\ orders = <<>>
    /\ faults = 0
    /\ passes = 1
    /\ saves = 0
    /\ file = LoadedFile

\* the caller computes the quantity and the engine quantizes it
Quantize ==
    /\ pc = "quantize"
    /\ pc' = "quantized"
    /\ call' = [call EXCEPT !.qty = OrderQty(call.path, pass.qty_raw_num,
                                             pass.qty_raw_den,
                                             pass.step_size_decimal,
                                             pass.min_qty_decimal)]
    /\ UNCHANGED <<runvars, storevars, now, botvars, resvars, exit_code, last_reserve_ts,
                   pass, ex, outcome, orders, faults>>

NextQty == Quantize

SpecQty == InitQty /\ [][NextQty]_vars

(***************************************************************************)
(* The circuit breaker on its own: the process starts with the error       *)
(* timestamps its state file held, and every pass of the main loop either  *)
(* ends quietly or raises into main()'s exception handler.                 *)
(***************************************************************************)
\* timestamps a state file can hold at start-up: around the edge of the
\* error window, and recent ones
ErrorTimes == {StartTime - ERROR_WINDOW_SECONDS - 1,
               StartTime - ERROR_WINDOW_SECONDS + 1,
               StartTime - ERROR_WINDOW_SECONDS + 6,
               StartTime - 2}
\* error_timestamps of a state file: appended in time order
LoadedErrors ==
    {ts \in UNION {[1..n -> ErrorTimes] : n \in 0..(ERROR_LIMIT - 1)} :
        \A i \in 1..(Len(ts) - 1) : ts[i] <= ts[i + 1]}

InitErrors ==
    /\ program \in {"bot", "bot_candle"} /\ WALK_ENABLED = TRUE
    /\ ENABLE_RESERVE_AUTOSALE = TRUE
    /\ walk = WalkDefaults
    /\ day_key = "D"
    /\ error_timestamps \in LoadedErrors
    /\ now = StartTime
    /\ state = "HOLDING_QUOTE"
    /\ entry_price = FundedState.entry_price
    /\ last_sell_price = FundedState.last_sell_price
    /\ pot_quote = FundedState.pot_quote
    /\ pot_eth = FundedState.pot_eth
    /\ last_trade_time = FundedState.last_trade_time
    /\ reserve_high_watermark_quote = 0
    /\ reserve_last_value_quote = 0
    /\ reserve_last_seen_eth = 0
    /\ daily_loss_quote = 0
    /\ trade_count = 0
    /\ trend_block_until = 0
    /\ reserve_last_action_ts = 0
    /\ pc = "top"
    /\ exit_code = -1
    /\ last_reserve_ts = StartTime
    /\ pass = NoPass
    /\ call = NoCall
    /\ ex = ExIdle
    /\ outcome = NoneRes
    /\ orders = <<>>
    /\ faults = 0
    /\ passes = 0
    /\ saves = 0
    /\ file = LoadedFile

\* the body of a pass, entered after the checks at the top of the loop
InPass == pc \in {"reserve", "funding"}

\* the body of the pass raises: main()'s handler counts the error, checks the
\* breaker and sleeps
PassRaises ==
    /\ InPass
    /\ CountErrorThen(MainErrorSleep)
    /\ UNCHANGED <<runvars, state, entry_price, last_sell_price, pot_quote,
                   pot_eth, daily_loss_quote, trade_count, last_trade_time,
                   trend_block_until, resvars, last_reserve_ts, pass, call, ex,
                   outcome, orders, faults>>

\* the body of the pass ends with nothing to do
PassEnds ==
    /\ InPass
    /\ Sleep(PassSleep)
    /\ UNCHANGED <<runvars, storevars, botvars, resvars, exit_code, last_reserve_ts, pass,
                   call, ex, outcome, orders, faults>>

NextErrors == LoopTop \/ PassRaises \/ PassEnds

SpecErrors == InitErrors /\ [][NextErrors]_vars

(***************************************************************************)
(* Properties                                                              *)
(***************************************************************************)
\* C1: at most one order of the engine is open on the exchange at any time
C1_OneOpenOrder == Cardinality(OpenOrders) <= 1

\* C2: a BUY reported while holding quote never flips the position when its
\* cumulative quote is below MIN_FILL_QUOTE, the pots being updated all the
\* same; with cumulative quote >= MIN_FILL_QUOTE and executed quantity >=
\* step_size it always flips to holding base, entry_price becoming the
\* average fill price
C2_BuyFlip ==
    [][(pc = "apply" /\ call.path = "BUY" /\ state = "HOLDING_QUOTE"
            /\ IsOrder(outcome))
       => LET cumm == outcome.cummulativeQuoteQty
              exec == outcome.executedQty
          IN  /\ cumm < MIN_FILL_QUOTE =>
                    /\ state' = "HOLDING_QUOTE"
                    /\ entry_price' = entry_price
                    /\ pot_eth' = pot_eth + exec
                    /\ pot_quote' = NormQuote(Max(pot_quote - cumm, 0))
              /\ (cumm >= MIN_FILL_QUOTE /\ exec >= step_size) =>
                    /\ state' = "HOLDING_ETH"
                    /\ entry_price' = cumm \div exec
                    /\ entry_price' * exec = cumm]_vars

\* a BUY has flipped the position: the entry price is the one of that fill
C2_Flipped ==
    /\ state = "HOLDING_ETH"
    /\ entry_price \notin {0, BoughtState.entry_price}
    /\ pot_eth >= 2

\* C3: a SELL reported with something executed flips the position to
\* holding quote, counting a trade, exactly when its cumulative quote is >=
\* MIN_FILL_QUOTE and what is left of the pot base is dust; otherwise the
\* pots are updated and position and trade_count stay
C3_SellFlip ==
    [][(pc = "apply" /\ call.path = "SELL" /\ IsOrder(outcome)
            /\ outcome.executedQty > 0)
       => LET cumm == outcome.cummulativeQuoteQty
              exec == outcome.executedQty
              dust == pot_eth' = 0 \/ pot_eth' * pass.exec_mid < min_notional
          IN  /\ pot_eth' = pot_eth - exec
              /\ pot_quote' = pot_quote + cumm
              /\ IF cumm >= MIN_FILL_QUOTE /\ dust
                 THEN state' = "HOLDING_QUOTE" /\ trade_count' = trade_count + 1
                 ELSE state' = state /\ trade_count' = trade_count]_vars

\* a SELL has flipped the position although base is left in the pot
C3_FlippedWithDust ==
    /\ state = "HOLDING_QUOTE"
    /\ trade_count = 1
    /\ pot_eth > 0

\* C4: every hard failure that execute_limit reports (None), on the buy,
\* sell, funding and reserve paths, appends one timestamp to
\* error_timestamps and runs the circuit breaker in the same pass
C4_HardFailureCounted ==
    [][(program = "bot_candle" /\ pc = "apply" /\ outcome = NoneRes)
       => /\ Len(error_timestamps') = Len(error_timestamps) + 1
          /\ Len(error_timestamps') >= ERROR_LIMIT => pc' = "stopped"]_vars

\* C5: under walk-the-limit, a call in which an attempt ended with the
\* final status of its order unconfirmed returns a hard failure, never a
\* clean no-fill and never a fill
C5_UnconfirmedIsHardFailure ==
    [][(UseWalk /\ pc = "exec" /\ pc' = "apply" /\ ex.unconfirmed)
       => outcome' = NoneRes]_vars

\* C6: fixed-offset strategy of both programs: at the poll timeout the
\* order is cancelled; with something executed it is returned as a fill,
\* with nothing executed the outcome is a clean no-fill, which adds no
\* error timestamp and leaves position, pots and last_trade_time alone
C6_FixedTimeout ==
    [][/\ (/\ ~UseWalk /\ pc = "exec" /\ ex.pc = "poll"
           /\ now - ex.start_time >= ORDER_TIMEOUT_SECONDS
           /\ faults' = faults /\ pc' = "apply")
          => LET o == orders'[ex.order_id]
             IN  /\ ~IsOpen(o)
                 /\ o.executedQty > 0 => outcome' = OrderDoc(o)
                 /\ o.executedQty = 0
                        => outcome'.status = "CANCELED_TIMEOUT_NOFILL"
       /\ (~UseWalk /\ pc = "apply"
               /\ outcome.status = "CANCELED_TIMEOUT_NOFILL")
          => UNCHANGED <<error_timestamps, state, pot_quote, pot_eth,
                         last_trade_time>>]_vars

\* C7: once a walk attempt reports an executed quantity > 0 or REJECTED,
\* the walk returns at once, the order for a fill and a hard failure for a
\* rejection, and issues no further attempt
C7_WalkStopsOnFillOrReject ==
    [][(pc = "exec" /\ ex.pc = "walk_res"
            /\ (ex.res.executedQty > 0 \/ ex.res.status = "REJECTED"))
       => /\ pc' = "apply"
          /\ outcome' = (IF ex.res.status = "REJECTED" THEN NoneRes
                         ELSE ex.res)
          /\ Len(orders') <= Len(orders)]_vars

\* the walk has returned a partial fill to its caller
C7_PartialEndsWalk ==
    /\ UseWalk /\ pc = "apply"
    /\ IsOrder(outcome)
    /\ outcome.executedQty > 0 /\ outcome.executedQty < call.qty

\* C8: a walk puts at most WALK_MAX_ATTEMPTS orders on the exchange, and
\* when the attempts or the time budget are used up it returns
\* CANCELED_TIMEOUT_NOFILL, which execute_limit passes on unchanged
C8_WalkBounded ==
    /\ [](UseWalk => ex.placed <= walk.attempts)
    /\ [][(/\ UseWalk /\ pc = "exec" /\ ex.pc = "walk_loop"
           /\ \/ ex.i >= walk.attempts
              \/ now - ex.start_time >= WALK_MAX_TOTAL_SECONDS)
          => (pc' = "apply" /\ outcome' = NoFill)]_vars

\* C9: the offset of walk attempt i is start + (end - start) * i /
\* (max_attempts - 1), and start when max_attempts is 1; for 3 attempts from
\* 0.001 to 0.0 the offsets are 0.001, 0.0005 and 0.0; with end <= start no
\* attempt is more passive than the one before it
C9_WalkOffset ==
    (pc = "exec" /\ ex.pc = "place" /\ UseWalk) =>
        LET A == walk.attempts
            den == IF A = 1 THEN 1 ELSE A - 1
            \* offset of attempt k, times PctScale * den
            at(k) == IF A = 1 THEN walk.start
                     ELSE walk.start * den + (walk.end - walk.start) * k
        IN  /\ ex.offset = at(ex.i)
            /\ (A = 3 /\ walk.start = 10 /\ walk.end = 0)
                  => ex.offset * PctScale
                        = 2 * PctScale * <<10, 5, 0>>[ex.i + 1]
            /\ (walk.end <= walk.start /\ ex.i > 0)
                  => ex.offset <= at(ex.i - 1)

\* the second of three attempts from 0.001 to 0.0 uses 0.0005
C9_SecondOfThree ==
    /\ pc = "exec" /\ ex.pc = "place" /\ UseWalk
    /\ walk = [attempts |-> 3, start |-> 10, end |-> 0]
    /\ ex.i = 1
    /\ ex.offset * 2 = 2 * 10

\* C10: the price of every order sent, on every path and under either
\* strategy, lies within [mid * multiplier_down, mid * multiplier_up] of the
\* mid price of the pass, and the price of every walk attempt keeps to the
\* spread-crossing cap around that mid
C10_PriceInBand ==
    (pc = "exec" /\ ex.pc = "poll") =>
        LET p == orders[ex.order_id].price * PctScale
            mid == call.pass_mid
        IN  /\ p >= mid * mul_down
            /\ p <= mid * mul_up
            /\ (UseWalk /\ call.side = "BUY")
                  => p <= mid * (PctScale + WALK_MAX_SPREAD_CROSS_PCT)
            /\ (UseWalk /\ call.side = "SELL")
                  => p >= mid * (PctScale - WALK_MAX_SPREAD_CROSS_PCT)

\* ---- loading the state file on its own: SpecLoad ----
\* what a run saved: the snapshots, here one with every field set
SavedState ==
    [NewBotState EXCEPT
        !.state = "HOLDING_ETH", !.entry_price = 1980,
        !.last_sell_price = 2004, !.pot_quote = 72, !.pot_eth = 4,
        !.daily_loss_quote = 30, !.trade_count = 1, !.day_key = "D",
        !.last_trade_time = StartTime - 10,
        !.error_timestamps = <<StartTime - 20>>,
        !.trend_block_until = StartTime + 2,
        !.reserve_high_watermark_quote = 6012,
        !.reserve_last_value_quote = 6000,
        !.reserve_last_action_ts = StartTime - 30,
        !.reserve_last_seen_eth = 3]
\* the lists a document can carry under price_history
DocHistories == {Sized(<<>>), Sized(<<1980, 2004>>), Unsized}
\* documents of an older version: USDT keys, fewer fields
LegacyData ==
    [state |-> "HOLDING_USDT", entry_price |-> 0, last_sell_price |-> 2004,
     pot_usdt |-> 6012, pot_eth |-> 0, daily_loss_usdt |-> 30,
     trade_count |-> 1, day_key |-> "D", last_trade_time |-> StartTime - 10]
\* the documents STATE_FILE can hold when the process starts
StateFiles ==
    {NoFile}
    \cup {[exists |-> TRUE, written |-> w,
           data |-> d @@ [price_history |-> ph]] :
             w \in 0..DocChunks, d \in {NewBotState, SavedState},
             ph \in DocHistories}
    \cup {[exists |-> TRUE, written |-> w, data |-> d] :
             w \in 0..DocChunks, d \in {LegacyData, SavedState}}

\* the process starts with a fresh BotState
InitLoad ==
    /\ program \in {"bot", "bot_candle"} /\ WALK_ENABLED \in BOOLEAN
    /\ ENABLE_RESERVE_AUTOSALE = TRUE
    /\ walk = WalkDefaults
    /\ file \in StateFiles
    /\ state = NewBotState.state
    /\ entry_price = 0
    /\ last_sell_price = 0
    /\ pot_quote = 0
    /\ pot_eth = 0
    /\ daily_loss_quote = 0
    /\ trade_count = 0
    /\ day_key = ""
    /\ last_trade_time = 0
    /\ error_timestamps = <<>>
    /\ trend_block_until = 0
    /\ reserve_high_watermark_quote = 0
    /\ reserve_last_value_quote = 0
    /\ reserve_last_action_ts = 0
    /\ reserve_last_seen_eth = 0
    /\ now \in {StartTime, StartTime + 1}
    /\ pc = "load"
    /\ exit_code = -1
    /\ last_reserve_ts = 0
    /\ pass = NoPass
    /\ call = NoCall
    /\ ex = ExIdle
    /\ outcome = NoneRes
    /\ orders = <<>>
    /\ faults = 0
    /\ passes = 0
    /\ saves = 0

\* main(): bot.load()
Load ==
    /\ pc = "load"
    /\ pc' = "top"
    /\ LET loaded == load(file, Snapshot)
       IN  /\ state' = loaded.state
           /\ entry_price' = loaded.entry_price
           /\ last_sell_price' = loaded.last_sell_price
           /\ pot_quote' = loaded.pot_quote
           /\ pot_eth' = loaded.pot_eth
           /\ daily_loss_quote' = loaded.daily_loss_quote
           /\ trade_count' = loaded.trade_count
           /\ day_key' = loaded.day_key
           /\ last_trade_time' = loaded.last_trade_time
           /\ error_timestamps' = loaded.error_timestamps
           /\ trend_block_until' = loaded.trend_block_until
           /\ reserve_high_watermark_quote' =
                  loaded.reserve_high_watermark_quote
           /\ reserve_last_value_quote' = loaded.reserve_last_value_quote
           /\ reserve_last_action_ts' = loaded.reserve_last_action_ts
           /\ reserve_last_seen_eth' = loaded.reserve_last_seen_eth
    /\ UNCHANGED <<program, WALK_ENABLED, ENABLE_RESERVE_AUTOSALE, walk,
                   passes, storevars, now,
                   exit_code, last_reserve_ts, pass, call, ex, outcome, orders,
                   faults>>

NextLoad == Load
SpecLoad == InitLoad /\ [][NextLoad]_vars

\* ---- the quantity of an approved trade: SpecSize ----
\* pots the funding check lets through, and step sizes of the LOT_SIZE filter
SizeQuotes == {4000, 5000, 6012}
SizeEths == 1..4
SizeSteps == {1, 3}

\* the buy is approved (HOLDING_QUOTE) or the sell is signalled (HOLDING_ETH)
InitSize ==
    /\ program \in {"bot", "bot_candle"} /\ WALK_ENABLED = TRUE
    /\ ENABLE_RESERVE_AUTOSALE = TRUE
    /\ walk = WalkDefaults
    /\ day_key = "D"
    /\ state \in {"HOLDING_QUOTE", "HOLDING_ETH"}
    /\ pot_quote \in IF state = "HOLDING_QUOTE" THEN SizeQuotes ELSE {0}
    /\ pot_eth \in IF state = "HOLDING_ETH" THEN SizeEths ELSE {0}
    /\ \E price \in Bids, step \in SizeSteps :
         pass = [current_price |-> price, step_size_decimal |-> step]
    /\ now = StartTime
    /\ entry_price = IF state = "HOLDING_ETH" THEN 1980 ELSE 0
    /\ last_sell_price = 2004
    /\ last_trade_time = 0
    /\ reserve_high_watermark_quote = 0
    /\ reserve_last_value_quote = 0
    /\ reserve_last_seen_eth = 0
    /\ daily_loss_quote = 0
    /\ trade_count = 0
    /\ error_timestamps = <<>>
    /\ trend_block_until = 0
    /\ reserve_last_action_ts = 0
    /\ pc = "size"
    /\ exit_code = -1
    /\ last_reserve_ts = StartTime
    /\ call = NoCall
    /\ ex = ExIdle
    /\ outcome = NoneRes
    /\ orders = <<>>
    /\ faults = 0
    /\ passes = 1
    /\ saves = 0
    /\ file = LoadedFile

\* main(): the quantity is computed and a quantity of 0 is answered; a
\* positive one goes on to the notional checks
SizeTrade ==
    /\ pc = "size"
    /\ LET side == IF state = "HOLDING_QUOTE" THEN "BUY" ELSE "SELL"
           pot == IF side = "BUY" THEN pot_quote ELSE pot_eth
           qty == qty_to_trade(side, pot, pass.current_price,
                               pass.step_size_decimal)
       IN  /\ call' = [NoCall EXCEPT !.path = side, !.side = side, !.qty = qty]
           /\ IF qty <= 0
              THEN IF zero_qty_stops(program, side) THEN Exit(1)
                   ELSE Sleep(PassSleep)
              ELSE Goto("notional")
    /\ UNCHANGED <<runvars, storevars, botvars, resvars, last_reserve_ts,
                   pass, ex, outcome, orders, faults>>

NextSize == SizeTrade
SpecSize == InitSize /\ [][NextSize]_vars

\* ---- the live/simulate switch: SpecSwitch ----
\* DRY_RUN is read as an int, LIVE_TRADING as a string
DryRuns == {0, 1, 2}
LiveTradings == {"YES", "NO"}
SwitchQtys == {1, 3}

\* main() is entered with the configuration of the environment; the order
\* the loop will send later is drawn here
InitSwitch ==
    /\ \E c \in Configs : program = c[1] /\ WALK_ENABLED = c[2]
    /\ ENABLE_RESERVE_AUTOSALE = TRUE
    /\ walk = WalkDefaults
    /\ day_key = "D"
    /\ \E dry \in DryRuns, live \in LiveTradings, side \in {"BUY", "SELL"},
          qty \in SwitchQtys, price \in Bids :
         pass = [DRY_RUN |-> dry, LIVE_TRADING |-> live, side |-> side,
                 qty |-> qty, price |-> price]
    /\ now = StartTime
    /\ state = "HOLDING_QUOTE"
    /\ pot_quote = 0
    /\ pot_eth = 0
    /\ entry_price = 0
    /\ last_sell_price = 0
    /\ last_trade_time = 0
    /\ reserve_high_watermark_quote = 0
    /\ reserve_last_value_quote = 0
    /\ reserve_last_seen_eth = 0
    /\ daily_loss_quote = 0
    /\ trade_count = 0
    /\ error_timestamps = <<>>
    /\ trend_block_until = 0
    /\ reserve_last_action_ts = 0
    /\ pc = "main"
    /\ exit_code = -1
    /\ last_reserve_ts = StartTime
    /\ call = NoCall
    /\ ex = ExIdle
    /\ outcome = NoneRes
    /\ orders = <<>>
    /\ faults = 0
    /\ passes = 0
    /\ saves = 0
    /\ file = LoadedFile

\* main(): the live trading guard in front of everything else
LiveGuard ==
    /\ pc = "main"
    /\ IF pass.DRY_RUN = 0 /\ pass.LIVE_TRADING # "YES"
       THEN Exit(1)
       ELSE Goto("exec")
    /\ UNCHANGED <<runvars, storevars, botvars, resvars, last_reserve_ts,
                   pass, call, ex, outcome, orders, faults>>

\* place_limit_order_with_timeout and place_limit_order_once_with_poll up to
\* their new_order call: DRY_RUN == 1 answers with a full fill computed here,
\* every other value goes on to client.new_order
SendOrder ==
    /\ pc = "exec"
    /\ IF pass.DRY_RUN = 1
       THEN /\ outcome' = [status |-> "FILLED", executedQty |-> pass.qty,
                           cummulativeQuoteQty |-> pass.qty * pass.price]
            /\ pc' = "apply"
            /\ UNCHANGED orders
       ELSE /\ orders' = Append(orders, [side |-> pass.side,
                                         origQty |-> pass.qty,
                                         price |-> pass.price,
                                         status |-> "NEW",
                                         executedQty |-> 0])
            /\ pc' = "poll"
            /\ UNCHANGED outcome
    /\ UNCHANGED <<runvars, storevars, now, botvars, resvars, exit_code,
                   last_reserve_ts, pass, call, ex, faults>>

NextSwitch == LiveGuard \/ SendOrder
SpecSwitch == InitSwitch /\ [][NextSwitch]_vars

\* ---- api_call on its own: SpecApi ----
\* what one invocation of the wrapped function does: it returns, or raises
\* a ClientError with or without an HTTP status, or another Exception
NoStatus == -1
Success == [kind |-> "ok", status |-> NoStatus]
ClientErrors(prog) ==
    {[kind |-> "ClientError", status |-> st] :
        st \in {399, 400, 499, 500} \cup
               (IF prog = "bot_candle" THEN {NoStatus} ELSE {})}
OtherError == [kind |-> "Exception", status |-> NoStatus]
FnResults(prog) == {Success, OtherError} \cup ClientErrors(prog)
\* more invocations than api_call may use
ScriptLen == RetryBudget + 1
Scripts(prog) == [1..ScriptLen -> FnResults(prog)]

\* api_call without its fail-fast branch: every error is retried
no_fatal_client_error(e) == FALSE
\* api_call: if status is not None and 400 <= status < 500: raise e
fatal_client_error(e) ==
    /\ e.kind = "ClientError"
    /\ e.status # NoStatus
    /\ 400 <= e.status /\ e.status < 500

\* api_call(fn) is entered; script[k] is what the k-th invocation of fn does
InitApi ==
    /\ program \in {"bot", "bot_candle"} /\ WALK_ENABLED = TRUE
    /\ ENABLE_RESERVE_AUTOSALE = TRUE
    /\ walk = WalkDefaults
    /\ day_key = "D"
    /\ \E script \in Scripts(program) :
         pass = [script |-> script, i |-> 0, calls |-> 0, sleeps |-> 0,
                 result |-> "pending", value |-> Success]
    /\ now = StartTime
    /\ state = "HOLDING_QUOTE"
    /\ pot_quote = 0
    /\ pot_eth = 0
    /\ entry_price = 0
    /\ last_sell_price = 0
    /\ last_trade_time = 0
    /\ reserve_high_watermark_quote = 0
    /\ reserve_last_value_quote = 0
    /\ reserve_last_seen_eth = 0
    /\ daily_loss_quote = 0
    /\ trade_count = 0
    /\ error_timestamps = <<>>
    /\ trend_block_until = 0
    /\ reserve_last_action_ts = 0
    /\ pc = "api_call"
    /\ exit_code = -1
    /\ last_reserve_ts = StartTime
    /\ call = NoCall
    /\ ex = ExIdle
    /\ outcome = NoneRes
    /\ orders = <<>>
    /\ faults = 0
    /\ passes = 1
    /\ saves = 0
    /\ file = LoadedFile

\* one turn of the for loop up to the return, the raise or the sleep
ApiInvoke ==
    /\ pc = "api_call"
    /\ pass.i < RetryBudget
    /\ LET e == pass.script[pass.calls + 1]
           called == [pass EXCEPT !.calls = @ + 1, !.value = e]
       IN  IF e = Success
           THEN /\ pass' = [called EXCEPT !.result = "returned"]
                /\ pc' = "done"
           ELSE IF fatal_client_error(e) \/ pass.i = RetryBudget - 1
           THEN /\ pass' = [called EXCEPT !.result = "raised"]
                /\ pc' = "done"
           ELSE /\ pass' = called
                /\ pc' = "backoff"
    /\ UNCHANGED <<runvars, storevars, now, botvars, resvars, exit_code,
                   last_reserve_ts, call, ex, outcome, orders, faults>>

\* time.sleep(delays[i]) and the next turn of the loop
ApiBackoff ==
    /\ pc = "backoff"
    /\ now' = now + ApiDelay(pass.i)
    /\ pass' = [pass EXCEPT !.i = @ + 1, !.sleeps = @ + 1]
    /\ pc' = "api_call"
    /\ UNCHANGED <<runvars, storevars, botvars, resvars, exit_code,
                   last_reserve_ts, call, ex, outcome, orders, faults>>

NextApi == ApiInvoke \/ ApiBackoff
SpecApi == InitApi /\ [][NextApi]_vars

\* ---- the funding SELL against the balance of the pass: SpecFund ----
\* pots below the minimum notional, the minQty of the exchange's LOT_SIZE
\* filter and the free base balance the account call returns, in lots
FundPots == {0, 72, 2400, 3600, 5790}
FundMinQtys == {1, 2}
FundFreeBases == 0..3
\* minNotional of the exchange's filter
FundMinNotionals == {min_notional, 5800}

\* main() has found the pot too small and calls fund_pot_if_needed; mid is 0
\* when the ticker cannot be read
InitFund ==
    /\ program \in {"bot", "bot_candle"} /\ WALK_ENABLED = TRUE
    /\ ENABLE_RESERVE_AUTOSALE = TRUE
    /\ walk = WalkDefaults
    /\ day_key = "D"
    /\ state = "HOLDING_QUOTE"
    /\ pot_quote \in FundPots
    /\ \E bid \in Bids, free_base \in FundFreeBases, minq \in FundMinQtys,
          min_not \in FundMinNotionals, ticker_ok \in BOOLEAN :
         /\ pot_quote < min_not
         /\ pass = [mid |-> IF ticker_ok THEN MidOf(bid, bid + tick_size)
                            ELSE 0,
                    bid |-> bid, free_base |-> free_base, min_qty |-> minq,
                    min_notional |-> min_not]
    /\ now = StartTime
    /\ pot_eth = 0
    /\ entry_price = 0
    /\ last_sell_price = 0
    /\ last_trade_time = 0
    /\ reserve_high_watermark_quote = 0
    /\ reserve_last_value_quote = 0
    /\ reserve_last_seen_eth = 0
    /\ daily_loss_quote = 0
    /\ trade_count = 0
    /\ error_timestamps = <<>>
    /\ trend_block_until = 0
    /\ reserve_last_action_ts = 0
    /\ pc = "funding"
    /\ exit_code = -1
    /\ last_reserve_ts = StartTime
    /\ call = NoCall
    /\ ex = ExIdle
    /\ outcome = NoneRes
    /\ orders = <<>>
    /\ faults = 0
    /\ passes = 1
    /\ saves = 0
    /\ file = LoadedFile

\* fund_pot_if_needed as main() calls it, the account and filter calls
\* answered: it returns, stops the process, or hands the funding SELL to the
\* engine; after a return main() stops on a pot that is still too small
FundSell ==
    /\ pc = "funding"
    /\ LET mid == pass.mid
           target == target_for(pass.min_notional)
           fund == funding_sell(program, target - pot_quote, mid,
                                pass.free_base, step_size, pass.min_qty,
                                pass.min_notional)
           returns == /\ IF pot_quote < pass.min_notional THEN Exit(1)
                         ELSE Goto(AfterFunding)
                      /\ UNCHANGED <<call, ex, outcome>>
       IN  IF pot_sufficient(pot_quote, target) THEN returns
           ELSE IF mid = 0 THEN returns
           ELSE IF fund.skips THEN returns
           ELSE IF fund.stops
           THEN /\ Exit(1)
                /\ UNCHANGED <<call, ex, outcome>>
           ELSE IF program = "bot_candle"
           THEN /\ StartExec("FUND", "SELL", fund.qty, Max(pass.bid, mid),
                             mid * mul_down, mid * mul_up, mid)
                /\ UNCHANGED <<now, exit_code>>
           ELSE /\ StartExec("FUND", "SELL", fund.qty, mid, 0, 0, mid)
                /\ UNCHANGED <<now, exit_code>>
    /\ UNCHANGED <<runvars, storevars, botvars, resvars, last_reserve_ts,
                   pass, orders, faults>>

NextFund == FundSell
SpecFund == InitFund /\ [][NextFund]_vars

\* ---- BotState.save step by step: SpecSave ----
\* the process is about to save a BotState over the document of the last
\* save, if there is one
InitSave ==
    /\ program \in {"bot", "bot_candle"} /\ WALK_ENABLED = TRUE
    /\ ENABLE_RESERVE_AUTOSALE = TRUE
    /\ walk = WalkDefaults
    /\ file \in {NoFile, Written(NewBotState), Written(SavedState)}
    /\ state \in {"HOLDING_QUOTE", "HOLDING_ETH"}
    /\ entry_price = SavedState.entry_price
    /\ last_sell_price = SavedState.last_sell_price
    /\ pot_quote \in {0, 72, 6012}
    /\ pot_eth = SavedState.pot_eth
    /\ daily_loss_quote = SavedState.daily_loss_quote
    /\ trade_count \in {1, 2}
    /\ day_key = "D"
    /\ last_trade_time = StartTime
    /\ error_timestamps = SavedState.error_timestamps
    /\ trend_block_until = SavedState.trend_block_until
    /\ reserve_high_watermark_quote = 0
    /\ reserve_last_value_quote = SavedState.reserve_last_value_quote
    /\ reserve_last_action_ts = StartTime
    /\ reserve_last_seen_eth = SavedState.reserve_last_seen_eth
    /\ now = StartTime
    /\ pc = "save"
    /\ exit_code = -1
    /\ last_reserve_ts = 0
    /\ pass = [previous |-> file]
    /\ call = NoCall
    /\ ex = ExIdle
    /\ outcome = NoneRes
    /\ orders = <<>>
    /\ faults = 0
    /\ passes = 1
    /\ saves = 0

\* open(STATE_FILE, 'w'): the file is there and empty
SaveOpen ==
    /\ pc = "save"
    /\ pc' = "dump"
    /\ file' = [exists |-> TRUE, written |-> 0, data |-> Snapshot]
    /\ UNCHANGED <<runvars, saves, now, botvars, resvars, exit_code,
                   last_reserve_ts, pass, call, ex, outcome, orders, faults>>

\* json.dump writes the document piece by piece
SaveDump ==
    /\ pc = "dump" /\ file.written < DocChunks
    /\ file' = [file EXCEPT !.written = @ + 1]
    /\ UNCHANGED <<runvars, saves, now, botvars, resvars, pc, exit_code,
                   last_reserve_ts, pass, call, ex, outcome, orders, faults>>

\* the with block ends: the file is closed, save returns
SaveClose ==
    /\ pc = "dump" /\ file.written = DocChunks
    /\ pc' = "saved"
    /\ saves' = saves + 1
    /\ UNCHANGED <<runvars, file, now, botvars, resvars, exit_code,
                   last_reserve_ts, pass, call, ex, outcome, orders, faults>>

\* the process dies inside save: what was written and not yet flushed may
\* be lost, what is in the file stays
Crash ==
    /\ pc \in {"save", "dump"}
    /\ pc' = "crashed"
    /\ \E flushed \in 0..file.written :
         file' = IF pc = "dump" THEN [file EXCEPT !.written = flushed]
                 ELSE file
    /\ UNCHANGED <<runvars, saves, now, botvars, resvars, exit_code,
                   last_reserve_ts, pass, call, ex, outcome, orders, faults>>

NextSave == SaveOpen \/ SaveDump \/ SaveClose \/ Crash
SpecSave == InitSave /\ [][NextSave]_vars

\* ---- the bounded lists on their own: SpecBuffers ----
\* BotState.load: a list of the document, cut to its last cap entries
load_capped(list, cap) == IF Len(list) > cap THEN LastN(list, cap) ELSE list
\* main(): list.append(c_close), then list.pop(0) when it is over its cap
append_keep_oldest(list, x, cap) ==
    IF Len(list) >= cap THEN list ELSE Append(list, x)
append_capped(list, x, cap) ==
    LET longer == Append(list, x)
    IN  IF Len(longer) > cap THEN Tail(longer) ELSE longer

\* closes, the lists a state file can hold, and the batches of new candles
BufferCloses == {1, 2}
DocLists(n) == UNION {[1..k -> BufferCloses] : k \in 0..n}
Batches == UNION {[1..k -> BufferCloses] : k \in 1..2}

\* the process starts: STATE_FILE holds two lists, BotState is fresh
InitBuffers ==
    /\ program = "bot_candle" /\ WALK_ENABLED = TRUE
    /\ ENABLE_RESERVE_AUTOSALE = TRUE
    /\ walk = WalkDefaults
    /\ day_key = "D"
    /\ \E ph \in DocLists(TREND_WINDOW_SAMPLES + 1),
          cc \in DocLists(SMA_WINDOW_CANDLES + 1) :
         pass = [doc_price_history |-> ph, doc_candle_closes |-> cc,
                 price_history |-> <<>>, candle_closes |-> <<>>,
                 arrived |-> <<>>]
    /\ now = StartTime
    /\ state = "HOLDING_QUOTE"
    /\ entry_price = 0
    /\ last_sell_price = 0
    /\ pot_quote = 0
    /\ pot_eth = 0
    /\ last_trade_time = 0
    /\ reserve_high_watermark_quote = 0
    /\ reserve_last_value_quote = 0
    /\ reserve_last_seen_eth = 0
    /\ daily_loss_quote = 0
    /\ trade_count = 0
    /\ error_timestamps = <<>>
    /\ trend_block_until = 0
    /\ reserve_last_action_ts = 0
    /\ pc = "load"
    /\ exit_code = -1
    /\ last_reserve_ts = StartTime
    /\ call = NoCall
    /\ ex = ExIdle
    /\ outcome = NoneRes
    /\ orders = <<>>
    /\ faults = 0
    /\ passes = 0
    /\ saves = 0
    /\ file = Written(Snapshot)

\* BotState.load: the two lists
LoadBuffers ==
    /\ pc = "load"
    /\ pc' = "candles"
    /\ pass' = [pass EXCEPT
                  !.price_history = load_capped(pass.doc_price_history,
                                                TREND_WINDOW_SAMPLES),
                  !.candle_closes = load_capped(pass.doc_candle_closes,
                                                SMA_WINDOW_CANDLES)]
    /\ UNCHANGED <<runvars, storevars, now, botvars, resvars, exit_code,
                   last_reserve_ts, call, ex, outcome, orders, faults>>

\* the lists after the closes of a batch were appended one by one
RECURSIVE AppendAll(_, _, _)
AppendAll(list, batch, cap) ==
    IF batch = <<>> THEN list
    ELSE AppendAll(append_capped(list, Head(batch), cap), Tail(batch), cap)

\* main(): a batch of new closed candles is appended and saved
AppendBatch ==
    /\ pc = "candles"
    /\ \E batch \in Batches :
         /\ Len(pass.arrived) + Len(batch) <= MaxArrivals
         /\ pass' = [pass EXCEPT
                       !.candle_closes = AppendAll(@, batch, SMA_WINDOW_CANDLES),
                       !.price_history = AppendAll(@, batch,
                                                   TREND_WINDOW_SAMPLES),
                       !.arrived = @ \o batch]
    /\ saves' = saves + 1
    /\ file' = Written(Snapshot)
    /\ UNCHANGED <<runvars, now, botvars, resvars, pc, exit_code,
                   last_reserve_ts, call, ex, outcome, orders, faults>>

NextBuffers == LoadBuffers \/ AppendBatch
SpecBuffers == InitBuffers /\ [][NextBuffers]_vars

\* ---- the CROSSUP gate and its previous values: SpecCross ----
CrossCloses == {1900, 1960, 2020}
CrossHistories == UNION {[1..k -> CrossCloses] : k \in 3..TREND_WINDOW_SAMPLES}
\* bot_candle.py appends every close to both lists
CrossCandles(prog, ph) ==
    IF prog = "bot" THEN <<>> ELSE LastN(ph, SMA_WINDOW_CANDLES)
CrossBatches(prog) ==
    UNION {[1..k -> CrossCloses] : k \in 1..(IF prog = "bot" THEN 1 ELSE 2)}

\* the lists as the last pass left them; the next pass is about to read the
\* market
InitCross ==
    /\ program \in {"bot", "bot_candle"} /\ WALK_ENABLED = TRUE
    /\ ENABLE_RESERVE_AUTOSALE = TRUE
    /\ walk = WalkDefaults
    /\ day_key = "D"
    /\ \E ph \in CrossHistories :
         pass = [price_history |-> ph,
                 candle_closes |-> CrossCandles(program, ph),
                 held_price_history |-> ph,
                 held_candle_closes |-> CrossCandles(program, ph),
                 current_price |-> 0, current_sma |-> 0, prev_price |-> 0,
                 prev_sma |-> 0, confirmed |-> FALSE]
    /\ now = StartTime
    /\ state = "HOLDING_QUOTE"
    /\ pot_quote = 0
    /\ pot_eth = 0
    /\ entry_price = 0
    /\ last_sell_price = 0
    /\ last_trade_time = 0
    /\ reserve_high_watermark_quote = 0
    /\ reserve_last_value_quote = 0
    /\ reserve_last_seen_eth = 0
    /\ daily_loss_quote = 0
    /\ trade_count = 0
    /\ error_timestamps = <<>>
    /\ trend_block_until = 0
    /\ reserve_last_action_ts = 0
    /\ pc = "candles"
    /\ exit_code = -1
    /\ last_reserve_ts = StartTime
    /\ call = NoCall
    /\ ex = ExIdle
    /\ outcome = NoneRes
    /\ orders = <<>>
    /\ faults = 0
    /\ passes = 1
    /\ saves = 0
    /\ file = LoadedFile

\* one pass up to the gate in CROSSUP mode. bot_candle.py appends the batch
\* to both lists and then reads the previous values from them; bot.py reads
\* them before it appends the tick. held_* are the lists right before the
\* newest sample went in.
CrossGate ==
    /\ pc = "candles"
    /\ \E batch \in CrossBatches(program) :
         LET current_price == batch[Len(batch)]
             earlier == SubSeq(batch, 1, Len(batch) - 1)
             ph0 == AppendAll(pass.price_history, earlier, TREND_WINDOW_SAMPLES)
             cc0 == AppendAll(pass.candle_closes, earlier, SMA_WINDOW_CANDLES)
             ph == append_capped(ph0, current_price, TREND_WINDOW_SAMPLES)
             cc == append_capped(cc0, current_price, SMA_WINDOW_CANDLES)
             sma == IF program = "bot_candle" THEN calculate_sma(cc)
                    ELSE calculate_sma(ph)
             prev_price == IF program = "bot_candle"
                           THEN candle_prev_price(ph, current_price)
                           ELSE ph0[Len(ph0)]
             prev_sma == IF program = "bot_candle"
                         THEN candle_prev_sma(cc, sma)
                         ELSE calculate_sma(ph0)
         IN  pass' = [price_history |-> ph, candle_closes |-> cc,
                      held_price_history |-> ph0, held_candle_closes |-> cc0,
                      current_price |-> current_price, current_sma |-> sma,
                      prev_price |-> prev_price, prev_sma |-> prev_sma,
                      confirmed |-> crossup(current_price, sma, prev_price,
                                            prev_sma)]
    /\ pc' = "gate"
    /\ UNCHANGED <<runvars, storevars, now, botvars, resvars, exit_code,
                   last_reserve_ts, call, ex, outcome, orders, faults>>

NextCross == CrossGate
SpecCross == InitCross /\ [][NextCross]_vars

\* ---- booking a trade outcome on its own: SpecPots ----
\* Quantities here are in quarters of a lot, so that a pot can carry the
\* residue that float arithmetic leaves; quote amounts are in quote units.
PotSteps == {1, 4}
LoadedQuotes == {0, 3, 6, 40}
LoadedEths == {0, 1, 4, 5, 9}
CummQuotes == {0, 2, 37, 40, 44}
ExecQtys == {0, 4, 8, 10}

\* main() holds the order that execute_limit returned for a BUY or a SELL
InitPots ==
    /\ program \in {"bot", "bot_candle"} /\ WALK_ENABLED = TRUE
    /\ ENABLE_RESERVE_AUTOSALE = TRUE
    /\ walk = WalkDefaults
    /\ day_key = "D"
    /\ \E path \in {"BUY", "SELL"} :
         call = [NoCall EXCEPT !.path = path, !.side = path]
    /\ pot_quote \in LoadedQuotes
    /\ pot_eth \in LoadedEths
    /\ \E step \in PotSteps :
         pass = [step_size_decimal |-> step, pot_quote |-> pot_quote,
                 pot_eth |-> pot_eth]
    /\ \E cumm_quote \in CummQuotes, exec_qty \in ExecQtys :
         outcome = [status |-> IF exec_qty > 0 THEN "FILLED" ELSE "CANCELED",
                    executedQty |-> exec_qty,
                    cummulativeQuoteQty |-> cumm_quote]
    /\ now = StartTime
    /\ state = IF call.path = "BUY" THEN "HOLDING_QUOTE" ELSE "HOLDING_ETH"
    /\ entry_price = 0
    /\ last_sell_price = 0
    /\ last_trade_time = 0
    /\ reserve_high_watermark_quote = 0
    /\ reserve_last_value_quote = 0
    /\ reserve_last_seen_eth = 0
    /\ daily_loss_quote = 0
    /\ trade_count = 0
    /\ error_timestamps = <<>>
    /\ trend_block_until = 0
    /\ reserve_last_action_ts = 0
    /\ pc = "book"
    /\ exit_code = -1
    /\ last_reserve_ts = StartTime
    /\ ex = ExIdle
    /\ orders = <<>>
    /\ faults = 0
    /\ passes = 1
    /\ saves = 0
    /\ file = LoadedFile

\* main() books the outcome on the pots and normalizes them
BookPots ==
    /\ pc = "book"
    /\ pc' = "booked"
    /\ LET booked == IF call.path = "BUY"
                     THEN buy_pots(pot_quote, pot_eth,
                                   outcome.cummulativeQuoteQty,
                                   outcome.executedQty, pass.step_size_decimal)
                     ELSE sell_pots(pot_quote, pot_eth,
                                    outcome.cummulativeQuoteQty,
                                    outcome.executedQty, pass.step_size_decimal)
       IN  /\ pot_quote' = booked.pot_quote
           /\ pot_eth' = booked.pot_eth
    /\ last_trade_time' = now
    /\ UNCHANGED <<runvars, now, state, entry_price, last_sell_price,
                   daily_loss_quote, trade_count, error_timestamps,
                   trend_block_until, resvars, exit_code, last_reserve_ts,
                   pass, call, ex, outcome, orders, faults>>
    /\ Saved(1)

NextPots == BookPots
SpecPots == InitPots /\ [][NextPots]_vars

\* ---- the buy check on its own: SpecGate ----
\* closes the window can hold, and the windows themselves
GatePrices == {1910, 1911, 1912, 1913}
GateHistories ==
    UNION {[1..n -> GatePrices] : n \in 1..MaxHistory}

\* main() stands at the buy logic of a pass, holding quote after a sale at
\* 2004, with any window of closes and the trend-block unset or running
InitGate ==
    /\ program \in {"bot", "bot_candle"} /\ WALK_ENABLED = TRUE
    /\ ENABLE_RESERVE_AUTOSALE = TRUE
    /\ walk = WalkDefaults
    /\ day_key = "D"
    /\ error_timestamps = <<>>
    /\ now = StartTime
    /\ state = "HOLDING_QUOTE"
    /\ entry_price = FundedState.entry_price
    /\ last_sell_price = FundedState.last_sell_price
    /\ pot_quote = FundedState.pot_quote
    /\ pot_eth = FundedState.pot_eth
    /\ last_trade_time = FundedState.last_trade_time
    /\ reserve_high_watermark_quote = 0
    /\ reserve_last_value_quote = 0
    /\ reserve_last_seen_eth = 0
    /\ daily_loss_quote = 0
    /\ trade_count = 0
    /\ trend_block_until \in {0, StartTime + 1}
    /\ reserve_last_action_ts = 0
    /\ pc = "logic"
    /\ exit_code = -1
    /\ last_reserve_ts = StartTime
    /\ \E ph \in GateHistories :
         LET c == ph[Len(ph)]
         IN  pass = [NoPass EXCEPT !.current_price = c, !.exec_mid = c,
                                   !.bid = c, !.ask = c + tick_size,
                                   !.price_history = ph,
                                   !.current_sma = calculate_sma(ph)]
    /\ call = NoCall
    /\ ex = ExIdle
    /\ outcome = NoneRes
    /\ orders = <<>>
    /\ faults = 0
    /\ passes = 0
    /\ saves = 0
    /\ file = LoadedFile

NextGate == Logic
SpecGate == InitGate /\ [][NextGate]_vars

\* C11: every submitted order quantity is an integer multiple of the step size
\* and is not larger than the raw quantity it was computed from, on the buy,
\* sell, reserve and funding paths (funding's minimum-quantity adjustment
\* included).
C11_QuantizedDown ==
    pc = "quantized" =>
        /\ call.qty % pass.step_size_decimal = 0
        /\ call.qty * pass.qty_raw_den <= pass.qty_raw_num

\* C12: no order is submitted, on any path, whose quantity times the pass's
\* mid price is below min_notional or below 95% of the target notional.
C12_NotionalFloor ==
    \A k \in 1..Len(orders) :
        (pc = "exec" /\ IsOpen(orders[k])) =>
            /\ call.qty * call.pass_mid >= min_notional
            /\ call.qty * call.pass_mid * 100 >= target_notional * 95

\* C13: check_errors drops every timestamp that has left the error window and
\* then stops the process with status 1 exactly when at least ERROR_LIMIT
\* timestamps remain, at the top of the loop and after a failure is appended:
\* ERROR_LIMIT failures inside one window stop it, four failures followed by a
\* fifth after one of them has aged out do not.
C13_Breaker ==
    [][(error_timestamps' # error_timestamps \/ pc = "top") =>
        LET appended == Bit(pc # "top")
            young == {i \in 1..Len(error_timestamps) :
                        now - error_timestamps[i] < ERROR_WINDOW_SECONDS}
            kept == error_timestamps'
        IN  /\ \A i \in 1..Len(kept) : now - kept[i] < ERROR_WINDOW_SECONDS
            /\ Len(kept) = Cardinality(young) + appended
            /\ (appended = 1 => kept[Len(kept)] = now)
            /\ (Len(kept) >= ERROR_LIMIT <=> (pc' = "stopped" /\ exit_code' = 1))
    ]_vars

\* C13: a fifth failure was counted after one of four earlier ones had aged
\* out, and the process runs on with four timestamps
C13_AgedOutThenFifth ==
    /\ pc = "top" /\ exit_code = -1 /\ passes = 1
    /\ Len(error_timestamps) = ERROR_LIMIT - 1
    /\ error_timestamps[ERROR_LIMIT - 1] = StartTime
    /\ error_timestamps[1] < StartTime

\* C14: a pass that starts, after the daily-reset check, with daily_loss_quote
\* at MAX_DAILY_LOSS_QUOTE or trade_count at MAX_TRADES_PER_DAY ends the
\* process with exit status 0 before any market data is read or any order is
\* placed, so no buy or sell of the position is in flight with a cap reached.
C14_CapsStopGracefully ==
    /\ []((pc = "exec" /\ call.path \in {"BUY", "SELL"}) =>
            /\ daily_loss_quote < MAX_DAILY_LOSS_QUOTE
            /\ trade_count < MAX_TRADES_PER_DAY)
    /\ [][LET fresh == now_date(now) # day_key
              loss == IF fresh THEN 0 ELSE daily_loss_quote
              trades == IF fresh THEN 0 ELSE trade_count
          IN  (pc = "top" /\ (loss >= MAX_DAILY_LOSS_QUOTE
                              \/ trades >= MAX_TRADES_PER_DAY)) =>
                  /\ pc' = "stopped" /\ exit_code' = 0
                  /\ pass' = pass /\ orders' = orders /\ call' = call
                  /\ now' = now
      ]_vars

\* C14: the process has stopped gracefully on the trade cap
C14_StoppedOnTradeCap ==
    pc = "stopped" /\ exit_code = 0 /\ trade_count = MAX_TRADES_PER_DAY

C16_Cooldown ==
    [][LET managed == call.path \in {"BUY", "SELL", "FUND"}
       IN  /\ (pc = "exec" /\ managed /\ Len(orders') > Len(orders)) =>
                  now - last_trade_time >= COOLDOWN_SECONDS
           /\ (pc = "apply" /\ managed /\ IsOrder(outcome)
                            /\ outcome.executedQty > 0) =>
                  last_trade_time' = now
           /\ (pc = "apply" /\ managed
                            /\ outcome.status = "CANCELED_TIMEOUT_NOFILL") =>
                  last_trade_time' = last_trade_time
    ]_vars

\* the dip anchor of the pass, as the buy logic of main() takes it
PassAnchor == IF program = "bot_candle" /\ last_sell_price <= 0
              THEN pass.current_price ELSE last_sell_price

\* the buy conditions of a pass: position, dip, trend-block, warm window, gate
BuyConditions ==
    /\ state = "HOLDING_QUOTE"
    /\ pass.current_price * PctScale <= PassAnchor * (PctScale - BUY_DROP_PCT)
    /\ Len(pass.price_history) >= TREND_MIN_SAMPLES
    /\ TrendGate.confirmed

\* C17: a BUY order is submitted only in a pass with position HOLDING_QUOTE,
\* price <= anchor * (1 - BUY_DROP_PCT), the trend-block cooldown expired, at
\* least TREND_MIN_SAMPLES samples in price_history and the reversal gate
\* confirmed; on a cold window the gate answers (False, WARMUP); a failed
\* warmup or an active trend-block ends the pass and leaves trend_block_until
\* as it was.
C17_BuyOnlyWhenGated ==
    [][LET cold == Len(pass.price_history) < TREND_MIN_SAMPLES
           buy_check == pc = "logic" /\ state = "HOLDING_QUOTE"
       IN  /\ (pc = "logic" /\ call'.path = "BUY") =>
                  BuyConditions /\ now >= trend_block_until
           /\ (pc = "exec" /\ call.path = "BUY"
                            /\ Len(orders') > Len(orders)) =>
                  BuyConditions /\ now >= trend_block_until
           /\ (pc = "logic" /\ cold) =>
                  TrendGate = GateAnswer(FALSE, "WARMUP")
           /\ (buy_check /\ (cold \/ now < trend_block_until)) =>
                  /\ pc' = "top" /\ exit_code' = exit_code
                  /\ call' = NoCall
                  /\ trend_block_until' = trend_block_until
      ]_vars

\* a BUY order is on the book, submitted in a pass whose gate confirmed
C17_BoughtOnReversal ==
    /\ pc = "exec" /\ call.path = "BUY" /\ Len(orders) > 0
    /\ orders[Len(orders)].side = "BUY"
    /\ TrendGate.reason = "REVERSAL_BOUNCE3_OK"

\* the buy check of the pass reaches the reversal gate and the gate refuses
GateFailed ==
    /\ pc = "logic" /\ state = "HOLDING_QUOTE"
    /\ (program = "bot" => last_sell_price > 0)
    /\ DipTriggered(pass.current_price, PassAnchor)
    /\ ~(program = "bot_candle"
           /\ FallingKnife(pass.current_price, pass.current_sma))
    /\ now >= trend_block_until
    /\ Len(pass.price_history) >= TREND_MIN_SAMPLES
    /\ ~TrendGate.confirmed

NewestStrictlyUp ==
    LET ph == pass.price_history
        n == Len(ph)
    IN  \A i \in (n - REVERSAL_SAMPLES + 1)..(n - 1) : ph[i + 1] > ph[i]

\* C19: in REVERSAL/BOUNCE3 mode with a warm window, is_reversal_confirmed
\* confirms exactly when the last REVERSAL_SAMPLES entries of price_history,
\* the newest included, are strictly increasing; so the buy check starts a
\* BUY on such a window only, and a refusing window arms the trend-block.
\* With three samples a window ending 10,11,12,13 passes, one ending
\* 10,12,11,13 fails, and equal neighbours fail.
C19_BounceIffStrictlyRising ==
    [][(pc = "logic" /\ Len(pass.price_history) >= TREND_MIN_SAMPLES) =>
          /\ TrendGate.confirmed <=> NewestStrictlyUp
          /\ TrendGate.reason = IF NewestStrictlyUp
                                THEN "REVERSAL_BOUNCE3_OK"
                                ELSE "REVERSAL_BOUNCE3_BLOCKED"
          /\ call'.path = "BUY" => NewestStrictlyUp
          /\ (~NewestStrictlyUp /\ now >= trend_block_until) =>
                 trend_block_until' = now + TREND_BLOCK_COOLDOWN_SECONDS
          /\ is_reversal_confirmed(<<10, 11, 12, 13>>, 13, 11, 12, 11).confirmed
          /\ ~is_reversal_confirmed(<<10, 12, 11, 13>>, 13, 11, 11, 11).confirmed
          /\ ~is_reversal_confirmed(<<10, 11, 12, 12>>, 12, 11, 12, 11).confirmed
      ]_vars

\* the buy check has started a BUY on a window that ends with three rising
\* closes after a dip
C19_BoughtOnBounce ==
    /\ pc = "exec" /\ call.path = "BUY"
    /\ pass.price_history = <<1912, 1913, 1910, 1911, 1912>>

\* C20: pot_quote and pot_eth are never negative, and when the outcome of a
\* BUY or SELL order has been applied pot_eth is 0 or at least step_size and
\* pot_quote is 0 or at least the quote dust threshold (0.01).
C20_PotsNormalized ==
    [][/\ pot_quote >= 0 /\ pot_eth >= 0
       /\ pot_quote' >= 0 /\ pot_eth' >= 0
       /\ pc = "book" =>
              /\ pot_eth' = 0 \/ pot_eth' >= pass.step_size_decimal
              /\ pot_quote' = 0 \/ pot_quote' >= QuoteDust
      ]_vars

\* a SELL was booked that left a residue below one step in pot_eth and a BUY
\* that left quote dust: both pots read 0 afterwards
C20_DustCleared ==
    /\ pc = "booked"
    /\ \/ /\ call.path = "SELL" /\ pass.step_size_decimal = 4
          /\ pass.pot_eth = 9 /\ outcome.executedQty = 8 /\ pot_eth = 0
       \/ /\ call.path = "BUY" /\ pass.pot_quote = 40
          /\ outcome.cummulativeQuoteQty = 37 /\ pot_quote = 0

\* the newest cap entries of everything a buffer was given, oldest first
NewestOf(all, cap) ==
    SubSeq(all, IF Len(all) > cap THEN Len(all) - cap + 1 ELSE 1, Len(all))

\* C21: after load and after every append price_history holds at most
\* TREND_WINDOW_SAMPLES entries and candle_closes at most SMA_WINDOW_CANDLES;
\* each buffer is the newest cap-many of the samples it was given (loaded,
\* then appended), in arrival order: overflow drops exactly the oldest.
C21_BuffersBounded ==
    pc = "candles" =>
        /\ Len(pass.price_history) <= TREND_WINDOW_SAMPLES
        /\ Len(pass.candle_closes) <= SMA_WINDOW_CANDLES
        /\ pass.price_history =
              NewestOf(pass.doc_price_history \o pass.arrived,
                       TREND_WINDOW_SAMPLES)
        /\ pass.candle_closes =
              NewestOf(pass.doc_candle_closes \o pass.arrived,
                       SMA_WINDOW_CANDLES)

\* a full price_history took two more closes: the two oldest are gone
C21_OldestDropped ==
    /\ pc = "candles"
    /\ pass.doc_price_history = <<1, 2, 2, 1, 2>>
    /\ pass.arrived = <<1, 1>>
    /\ pass.price_history = <<2, 1, 2, 1, 1>>

\* C22: save followed by load into a fresh BotState gives back every field;
\* and whatever STATE_FILE holds, load leaves the BotState either as it was
\* or with every field taken from the document, never some fields loaded
\* and the others at their defaults.
C22_LoadAllOrNothing ==
    [][pc = "load" =>
          /\ file = Written(SavedState) => Snapshot' = SavedState
          /\ Snapshot' \in {Snapshot, load_all(file, Snapshot)}
      ]_vars

\* C23: after a crash at any point of BotState.save, STATE_FILE holds the
\* whole previous document or the whole new one, never an empty or a
\* truncated one.
C23_CrashSafeSave ==
    pc = "crashed" => file \in {pass.previous, Written(Snapshot)}

\* C24: no pass of the loop saves the state two or more times, and a pass
\* that has ended saved it exactly once.
C24_OneSavePerPass ==
    /\ saves <= 1
    /\ (pc = "top" /\ passes > 0) => saves = 1

\* C25: whenever the loop is between two passes or the process has stopped,
\* loading STATE_FILE gives back the BotState that is in memory: every
\* mutation of the pass has been saved.
C25_SavedBeforePassEnds ==
    (pc \in {"top", "stopped"} /\ passes > 0) =>
        load(file, NewBotState) = Snapshot

\* C26: when a reserve SELL that was handed to the engine comes back, filled,
\* partly filled, timed out cleanly or failed, reserve_watcher leaves
\* reserve_high_watermark_quote at 0 and reserve_last_action_ts at the time
\* of the attempt.
C26_ReserveAttemptResets ==
    [][(pc = "apply" /\ call.path = "RESERVE") =>
          /\ reserve_high_watermark_quote' = 0
          /\ reserve_last_action_ts' = pass.now_ts]_vars

\* C27: a step of reserve_watcher, its execute_limit call included, leaves
\* state, entry_price, last_sell_price, pot_quote, pot_eth, trade_count,
\* daily_loss_quote and last_trade_time as they were, and every other field
\* of BotState except the four reserve_* ones; with ENABLE_RESERVE_AUTOSALE
\* off it hands no order to the engine.
ReserveStep == pc = "reserve" \/ call.path = "RESERVE"
C27_ReserveFrame ==
    [][ReserveStep =>
          /\ UNCHANGED <<state, entry_price, last_sell_price, pot_quote,
                         pot_eth, trade_count, daily_loss_quote,
                         last_trade_time>>
          /\ UNCHANGED <<day_key, error_timestamps, trend_block_until>>
          /\ ~ENABLE_RESERVE_AUTOSALE =>
                 call' = NoCall /\ orders' = orders]_vars

\* a reserve SELL came back from the engine with the pot holding base asset
C27_ReserveSoldBesidePot ==
    /\ reserve_last_action_ts > 0
    /\ reserve_high_watermark_quote = 0
    /\ pot_eth > 0
    /\ state = "HOLDING_ETH"
    /\ pc = "candles"

\* C28: when the funding SELL comes back as a clean timeout
\* (CANCELED_TIMEOUT_NOFILL), the BotState stays as it was, no error is
\* counted and the process goes on to a later pass instead of stopping.
C28_FundingTimeoutRetried ==
    [][(/\ pc = "apply" /\ call.path = "FUND"
        /\ outcome.status = "CANCELED_TIMEOUT_NOFILL") =>
          /\ UNCHANGED <<botvars, resvars, error_timestamps>>
          /\ pc' # "stopped"
          /\ exit_code' = exit_code]_vars

\* C29: the quantity of a funding SELL handed to the engine is at most the
\* free base balance read in that pass; when more would be needed the
\* process stops and no order is handed over.
C29_FundingWithinBalance ==
    call.path = "FUND" => call.qty <= pass.free_base

\* C30: api_call invokes the wrapped function at most 3 times and returns
\* the first success; an invocation follows another only when that one
\* raised an error that is not a ClientError with a status in [400, 500);
\* such a ClientError is raised again right after its invocation, with no
\* sleep after it; the error of the third invocation is raised to the
\* caller.
Permanent(e) == e.kind = "ClientError" /\ e.status \in 400..499
C30_ApiCallRetries ==
    pc \in {"api_call", "backoff", "done"} =>
      LET n == pass.calls
          last == pass.script[n]
      IN  /\ n <= 3
          /\ pass.sleeps <= n
          /\ \A k \in 1..(n - 1) :
                pass.script[k] # Success /\ ~Permanent(pass.script[k])
          /\ pass.result = "returned" => (last = Success /\ pass.value = last)
          /\ (n >= 1 /\ last = Success) => pass.result = "returned"
          /\ (n >= 1 /\ Permanent(last)) =>
                /\ pass.result = "raised" /\ pass.value = last
                /\ pass.sleeps = n - 1
          /\ (n = 3 /\ last # Success) =>
                pass.result = "raised" /\ pass.value = last
          /\ pass.result = "raised" => (n = 3 \/ Permanent(last))

\* the first invocation failed with a status outside [400, 500), api_call
\* slept and called again, and the second invocation's 4xx was raised
C30_RetriedThenFailedFast ==
    /\ pc = "done" /\ pass.calls = 2 /\ pass.sleeps = 1
    /\ pass.result = "raised" /\ pass.value.status = 400
    /\ pass.script[1].kind = "ClientError"
    /\ now = StartTime + 1

\* C31: an order reaches the exchange only with DRY_RUN = 0 and
\* LIVE_TRADING = "YES"; under every other configuration the order is
\* answered by a full fill computed locally.
C31_LiveOnlyWhenConfigured ==
    /\ orders # <<>> => (pass.DRY_RUN = 0 /\ pass.LIVE_TRADING = "YES")
    /\ (pc = "apply" /\ pass.DRY_RUN # 0) =>
          /\ outcome.status = "FILLED"
          /\ outcome.executedQty = pass.qty

\* C32: an approved buy or a signalled sell whose quantity rounds to 0 while
\* its pot is not empty stops the process with a non-zero exit code in that
\* pass; the loop does not go on.
C32_ZeroQuantityStops ==
    (/\ pc # "size" /\ call.qty = 0
     /\ (IF call.side = "BUY" THEN pot_quote ELSE pot_eth) > 0) =>
        pc = "stopped" /\ exit_code > 0

\* C33: with the position HOLDING_QUOTE and pot_quote below min_notional,
\* fund_pot_if_needed hands a funding SELL to the engine or stops because
\* the free base balance is too small; it does not return without either.
InsufficientBase ==
    /\ pass.mid # 0
    /\ funding_sell(program, target_for(pass.min_notional) - pot_quote,
                    pass.mid, pass.free_base, step_size, pass.min_qty,
                    pass.min_notional).stops
C33_FundingActs ==
    pc # "funding" =>
        \/ call.path = "FUND"
        \/ pc = "stopped" /\ InsufficientBase

\* C34: the slice timeout of every walk attempt is at least the floor of 5 s
\* and at most what is left of WALK_MAX_TOTAL_SECONDS since the walk
\* started.
C34_SliceWithinBudget ==
    [][(pc = "exec" /\ ex.pc = "walk_loop" /\ ex'.pc = "place") =>
          /\ WalkSliceFloor <= ex'.poll_seconds
          /\ ex'.poll_seconds <=
                WALK_MAX_TOTAL_SECONDS - (now - ex.start_time)]_vars

\* C35: in CROSSUP mode the gate gets as prev_price the newest sample and as
\* prev_sma the SMA that the tracker held right before the newest sample was
\* appended, also with a full SMA buffer and with several candles in one
\* pass, and it confirms iff that price is at most that SMA and
\* current_price > current_sma * (1 + MIN_TREND_SPREAD_PCT).
HeldSma ==
    calculate_sma(IF program = "bot_candle" THEN pass.held_candle_closes
                  ELSE pass.held_price_history)
HeldPrice == pass.held_price_history[Len(pass.held_price_history)]
C35_CrossupPreviousValues ==
    (pc = "gate" /\ Len(pass.price_history) >= TREND_MIN_SAMPLES) =>
        /\ pass.prev_price = HeldPrice
        /\ pass.prev_sma = HeldSma
        /\ pass.confirmed <=>
              /\ HeldPrice <= HeldSma
              /\ pass.current_price * PctScale
                    > pass.current_sma * (PctScale + MIN_TREND_SPREAD_PCT)

C37_OrdersWithinPots ==
    [][Len(orders') > Len(orders) =>
          LET o == orders'[Len(orders')]
          IN  /\ call.path = "BUY" => o.origQty * o.price <= pot_quote
              /\ call.path = "SELL" => o.origQty <= pot_eth]_vars

\* a BUY order and, later in the run, a position SELL order were sent
C37_BoughtThenSelling ==
    /\ call.path = "SELL" /\ orders # <<>>
    /\ orders[Len(orders)].side = "SELL"
    /\ orders[Len(orders)].origQty = pot_eth
    /\ last_trade_time > StartTime

\* ---- the reserve watcher on its own: SpecReserve ----
\* free base balances of the account, in lots, and the reserve sizes a
\* saved state can hold
ReserveFrees == {0, 3, 5, 8}
ReservePots == {0, 1, 4}
ReserveSeen == {0, 3, 4}

\* the candle loop is at its throttled watcher call, which is due; the state
\* is one an earlier watcher pass left: nothing seen, or a reserve with its
\* last value and a watermark that is at least that value, or 0 after a sale
InitReserve ==
    /\ program = "bot_candle" /\ WALK_ENABLED \in BOOLEAN
    /\ ENABLE_RESERVE_AUTOSALE \in BOOLEAN
    /\ walk = WalkDefaults
    /\ day_key = "D"
    /\ pot_eth \in ReservePots
    /\ state = (IF pot_eth > 0 THEN "HOLDING_ETH" ELSE "HOLDING_QUOTE")
    /\ entry_price = (IF pot_eth > 0 THEN 1980 ELSE 0)
    /\ pot_quote = (IF pot_eth > 0 THEN 72 ELSE 6012)
    /\ reserve_last_seen_eth \in ReserveSeen
    /\ \E b1 \in Bids, b2 \in Bids, sold \in BOOLEAN :
         LET v1 == reserve_last_seen_eth * MidOf(b1, b1 + tick_size)
             v2 == reserve_last_seen_eth * MidOf(b2, b2 + tick_size)
         IN  /\ reserve_last_value_quote = Min(v1, v2)
             /\ reserve_high_watermark_quote =
                    (IF sold THEN 0 ELSE Max(v1, v2))
    /\ reserve_last_action_ts \in {0, StartTime - 2}
    /\ now = StartTime
    /\ last_sell_price = 2004
    /\ last_trade_time = 0
    /\ daily_loss_quote = 0
    /\ trade_count = 0
    /\ error_timestamps = <<>>
    /\ trend_block_until = 0
    /\ pc = "reserve"
    /\ exit_code = -1
    /\ last_reserve_ts = 0
    /\ pass = NoPass
    /\ call = NoCall
    /\ ex = ExIdle
    /\ outcome = NoneRes
    /\ orders = <<>>
    /\ faults = 0
    /\ passes = 1
    /\ saves = 0
    /\ file = LoadedFile

ReservePass == ReserveWatcherOn(ReserveFrees)

NextReserve ==
    \/ ReservePass
    \/ ApplyReserve
    \/ WalkLoop
    \/ NewOrder
    \/ WalkPoll
    \/ WalkCancel
    \/ WalkResult
    \/ FixedPoll
    \/ FixedCancel
    \/ ExchangeFill
    \/ ExchangeResolve

SpecReserve == InitReserve /\ [][NextReserve]_vars

\* C38: a reserve SELL has a quantity of at most
\* min(free base balance - pot_eth, RESERVE_MAX_SELL_ETH), with the balance
\* read in that watcher pass, and none is handed over when
\* free base balance - pot_eth is below RESERVE_MIN_ETH.
ReserveRoom == pass.total_free_base - pot_eth
C38_ReserveSellsOnlyReserve ==
    call.path = "RESERVE" =>
        /\ call.qty <= Min(ReserveRoom, RESERVE_MAX_SELL_ETH)
        /\ ReserveRoom >= RESERVE_MIN_ETH
        /\ \A k \in 1..Len(orders) :
              orders[k].origQty <= Min(ReserveRoom, RESERVE_MAX_SELL_ETH)

\* a reserve SELL capped at RESERVE_MAX_SELL_ETH is on the exchange while
\* the pot holds base asset
C38_CappedReserveOrder ==
    /\ call.path = "RESERVE" /\ orders # <<>>
    /\ orders[Len(orders)].origQty = RESERVE_MAX_SELL_ETH
    /\ ReserveRoom > RESERVE_MAX_SELL_ETH
    /\ pot_eth > 0

\* C40: after a reserve_watcher pass that saw a nonzero reserve and
\* submitted no order, reserve_high_watermark_quote is at least the current
\* reserve value; and a pass in which a size change reset the watermark
\* hands no trailing-stop SELL to the engine.  The watermark also covers
\* the value when execute_limit was called and returned no order.
SawReserve ==
    /\ pc = "reserve" /\ last_reserve_ts' # last_reserve_ts
    /\ faults' = faults /\ reserve_last_seen_eth' > 0
C40_WatermarkCoversValue ==
    [][/\ (SawReserve /\ call' = NoCall) =>
             reserve_high_watermark_quote' >= reserve_last_value_quote'
       /\ (SawReserve /\ size_changed(reserve_last_seen_eth,
                                      reserve_last_seen_eth')) =>
             call' = NoCall
       /\ (pc = "apply" /\ call.path = "RESERVE" /\ outcome = NoneRes) =>
             reserve_high_watermark_quote' >= reserve_last_value_quote']_vars

\* a pass outside the cooldown, autosale enabled, found the reserve grown
\* and its value below the old trail line, and reset the watermark instead
\* of selling
C40_ResetInsteadOfSale ==
    /\ pc = "candles" /\ call = NoCall /\ ENABLE_RESERVE_AUTOSALE
    /\ reserve_last_action_ts = 0 /\ last_reserve_ts = now
    /\ reserve_last_seen_eth = 5 /\ file.exists /\ saves = 1
    /\ reserve_high_watermark_quote = reserve_last_value_quote
    /\ reserve_last_value_quote = 5 * 1941
\* ---- polling the closed candles: SpecPoll ----
\* Candle k of the exchange closes at k * CandlePeriod seconds after
\* StartTime, the candles before the start have k <= 0; a klines call returns CANDLE_LIMIT consecutive candles, the
\* candle in progress last, or an older window when the exchange lags.
CandlePeriod == 3
CANDLE_LIMIT == 2
MAX_CANDLE_STALENESS_SECONDS == 4
MaxLag == 2
PollHorizon == StartTime + 12
PassSeconds == {1, CANDLE_POLL_SECONDS, 7}
CloseTime(k) == StartTime + k * CandlePeriod
CloseOf(c_time) == 1940 + 20 * ((c_time \div CandlePeriod) % 3)
\* the candle in progress at time t
InProgress(t) == (t - StartTime) \div CandlePeriod + 1
\* the close times of a klines answer that ends with candle e
Klines(e) == {CloseTime(k) : k \in (e - CANDLE_LIMIT + 1)..e}

\* sorted(..., key=close_time)
RECURSIVE SortedTimes(_)
SortedTimes(times) ==
    IF times = {} THEN <<>>
    ELSE LET first == CHOOSE t \in times : \A u \in times : t <= u
         IN  <<first>> \o SortedTimes(times \ {first})
\* get_recent_closed_candles: the candles that closed more than a second ago
get_recent_closed_candles(result, now_time) ==
    SortedTimes({c_time \in result : c_time < now_time - 1})
\* the candles at or after last_candle_close_time
not_before(new_candles, last_time) ==
    SelectSeq(new_candles, LAMBDA c_time : c_time >= last_time)
\* main(): the candles after last_candle_close_time
new_closed_of(new_candles, last_time) ==
    SelectSeq(new_candles, LAMBDA c_time : c_time > last_time)
\* the closes of a list of candles
RECURSIVE ClosesOf(_)
ClosesOf(times) ==
    IF times = <<>> THEN <<>>
    ELSE <<CloseOf(Head(times))>> \o ClosesOf(Tail(times))

\* the candle loop is about to poll; BotState holds what earlier polls of
\* the candles up to last_candle_close_time left
InitPoll ==
    /\ program = "bot_candle" /\ WALK_ENABLED = TRUE
    /\ ENABLE_RESERVE_AUTOSALE = TRUE
    /\ walk = WalkDefaults
    /\ day_key = "D"
    /\ \E seen \in 0..2 :
         LET times == [k \in 1..seen |-> CloseTime(k - seen - 1)]
         IN  pass = [last_candle_close_time |->
                         IF seen = 0 THEN 0 ELSE CloseTime(-1),
                     candle_closes |->
                         LastN(ClosesOf(times), SMA_WINDOW_CANDLES),
                     price_history |->
                         LastN(ClosesOf(times), TREND_WINDOW_SAMPLES),
                     appended |-> times,
                     new_candles |-> <<>>,
                     consumed |-> <<>>,
                     logic_c_time |-> 0]
    /\ now = StartTime
    /\ last_trade_time \in {0, StartTime - 1}
    /\ state = "HOLDING_QUOTE"
    /\ entry_price = 0
    /\ last_sell_price = 0
    /\ pot_quote = 6012
    /\ pot_eth = 0
    /\ reserve_high_watermark_quote = 0
    /\ reserve_last_value_quote = 0
    /\ reserve_last_seen_eth = 0
    /\ daily_loss_quote = 0
    /\ trade_count = 0
    /\ error_timestamps = <<>>
    /\ trend_block_until = 0
    /\ reserve_last_action_ts = 0
    /\ pc = "candles"
    /\ exit_code = -1
    /\ last_reserve_ts = StartTime
    /\ call = NoCall
    /\ ex = ExIdle
    /\ outcome = NoneRes
    /\ orders = <<>>
    /\ faults = 0
    /\ passes = 1
    /\ saves = 0
    /\ file = LoadedFile

\* main(): poll the candles, append the new ones and save, pass the
\* cooldown gate and the staleness check.  new_candles is the list the poll
\* returned, consumed the candles of it that were appended, logic_c_time
\* the candle the trading logic of the pass runs on, 0 when it does not
\* run.  The pass ends after some seconds.
PollCandles ==
    /\ pc = "candles"
    /\ \E lag \in 0..MaxLag, klines_ok \in BOOLEAN, d \in PassSeconds :
         LET e == InProgress(now) - lag
             result == IF klines_ok THEN Klines(e) ELSE {}
             new_candles == get_recent_closed_candles(result, now)
             new_closed == new_closed_of(new_candles,
                                         pass.last_candle_close_time)
             latest_c_time == new_closed[Len(new_closed)]
             runs == /\ new_closed # <<>>
                     /\ ~(now - last_trade_time < COOLDOWN_SECONDS)
                     /\ ~(now - latest_c_time > MAX_CANDLE_STALENESS_SECONDS)
         IN  /\ now + d <= PollHorizon
             /\ now' = now + d
             /\ faults' = faults + Bit(~klines_ok)
             /\ IF new_closed = <<>>
                THEN /\ pass' = [pass EXCEPT !.new_candles = new_candles,
                                             !.consumed = <<>>,
                                             !.logic_c_time = 0]
                     /\ UNCHANGED storevars
                ELSE /\ pass' = [pass EXCEPT
                           !.last_candle_close_time = latest_c_time,
                           !.candle_closes =
                               AppendAll(@, ClosesOf(new_closed),
                                         SMA_WINDOW_CANDLES),
                           !.price_history =
                               AppendAll(@, ClosesOf(new_closed),
                                         TREND_WINDOW_SAMPLES),
                           !.appended = @ \o new_closed,
                           !.new_candles = new_candles,
                           !.consumed = new_closed,
                           !.logic_c_time =
                               IF runs THEN latest_c_time ELSE 0]
                     /\ saves' = saves + 1
                     /\ file' = Written(Snapshot)
    /\ UNCHANGED <<runvars, botvars, resvars, pc, exit_code, last_reserve_ts,
                   call, ex, outcome, orders>>

NextPoll == PollCandles
SpecPoll == InitPoll /\ [][NextPoll]_vars

\* C39: across the polls last_candle_close_time never decreases, and every
\* closed candle is appended to candle_closes and price_history at most
\* once, in increasing close_time order, also when the polls return
\* overlapping lists; the trading logic runs only in a pass that consumed a
\* new candle, on the newest one, and not when that candle is older than
\* MAX_CANDLE_STALENESS_SECONDS.
AppendedInOrder ==
    /\ \A i, j \in 1..Len(pass.appended) :
         i < j => pass.appended[i] < pass.appended[j]
    /\ pass.candle_closes =
         LastN(ClosesOf(pass.appended), SMA_WINDOW_CANDLES)
    /\ pass.price_history =
         LastN(ClosesOf(pass.appended), TREND_WINDOW_SAMPLES)
LogicOnNewest ==
    pass.logic_c_time # 0 =>
        /\ pass.consumed # <<>>
        /\ pass.logic_c_time = pass.consumed[Len(pass.consumed)]
        /\ pass.logic_c_time = pass.last_candle_close_time
        /\ \A k \in 1..Len(pass.appended) :
             pass.appended[k] <= pass.logic_c_time
C39_CandlesOnceInOrder ==
    /\ [](AppendedInOrder /\ LogicOnNewest)
    /\ [][/\ pass'.last_candle_close_time >= pass.last_candle_close_time
          /\ pass'.logic_c_time # 0 =>
                now - pass'.logic_c_time <= MAX_CANDLE_STALENESS_SECONDS]_vars

\* a poll returned a list that overlaps the one before it, and the trading
\* logic ran on the one candle that was new
C39_OverlappingPoll ==
    /\ Len(pass.new_candles) = CANDLE_LIMIT
    /\ Len(pass.consumed) = 1
    /\ Len(pass.appended) >= 3
    /\ pass.appended[Len(pass.appended) - 1] = pass.new_candles[1]
    /\ pass.logic_c_time = pass.last_candle_close_time
====
